---- MODULE Spec2Model ----
(***************************************************************************)
(* Model of the orus gateway (src/orus.go, src/ollama_client.go).          *)
(*                                                                         *)
(* The specifications share the variables:                                 *)
(*   Spec      the handlers of the latest OrusAPI as the router enters     *)
(*             them (an HTTP request body arrives, the handler runs from   *)
(*             its first line);                                            *)
(*   SpecCore  the sections of the handlers that follow request            *)
(*             validation (EmbedText from line 1023, CallLLM from line     *)
(*             1298, OllamaPullModel from line 1094) and the OllamaClient  *)
(*             calls, entered with typed arguments drawn from small sets;  *)
(*   SpecEarlier    the handlers of the earlier OrusAPI (lines 362-496 and *)
(*             634-724) as the router enters them;                         *)
(*   SpecEarlierLive  SpecEarlier under a fair scheduler;                  *)
(*   SpecFirst the BGE_M3_Embed of the first OrusAPI (lines 209-252);      *)
(*   SpecNonStream  the latest EmbedText followed by a non-streaming       *)
(*             CallLLM, one request after the other;                       *)
(*   SpecChatPaths  a non-streaming and then a streaming CallLLM on the    *)
(*             same reply of the backend.                                  *)
(*                                                                         *)
(* Abstractions: a text is a sequence of characters; a float vector is a   *)
(* sequence whose elements carry the text they were computed from; the     *)
(* serial identifier and the elapsed time of an envelope are left out.     *)
(***************************************************************************)
EXTENDS Integers, Sequences, FiniteSets, TLC

\* ------------------------------------------------------------------ bounds
MaxDim == 1
MaxItems == 3

\* ------------------------------------------------------- program constants
StatusOK == 200
StatusBadRequest == 400
StatusInternalServerError == 500
StatusGatewayTimeout == 504
RespChanCap == 1

\* ------------------------------------------------------------------ inputs
Reqs == {"r1", "r2"}
EmbedModels == {"bge-m3", "nomic-embed-text:latest", "ollama-bge-m3",
                "unknown-model", "bge-m3:latest"}
Texts == {"t1", "t2"}
NoData == [kind |-> "nil"]
NoCall == [provider |-> "none"]
NoReq == [model |-> "", text |-> ""]
NoOp == [handler |-> "none", client |-> "none", stream |-> FALSE, flusher |-> TRUE]
NoHttp == [handler |-> "none"]
NoSignals == [Prompt |-> "", Model |-> "", OperationType |-> "",
              ResponseMode |-> "", Result |-> <<>>]
NilRet == [isNil |-> TRUE, content |-> <<>>, done |-> FALSE]
NoBackend == [open |-> "ok", items |-> <<>>, tail |-> "eof"]

VARIABLES
    hpc,        \* EmbedText: position of the handler of each request
    wpc,        \* EmbedText: position of the worker goroutine of each request
    ereq,       \* EmbedText: the validated (model, text) of each request
    ctxDone,    \* EmbedText: ctx.Done() is closed (timer, caller or cancel())
    respChan,   \* EmbedText: content of the buffered channel respChan
    wresp,      \* EmbedText: the worker's local resp
    written,    \* per request: the HTTP responses written, in order
    calls,      \* per request: the embedding provider calls made, in order
    op,         \* the streaming/chat operation in progress and its arguments
    backend,    \* what the backend answers to the operation's HTTP call
    cpc,        \* position of the operation: idle, do, loop, returned, done
    pos,        \* number of NDJSON objects the json.Decoder has consumed
    fullContent,\* Chat/Generate: the accumulated text
    content,    \* CallLLM: the slice the callback appends each delta to
    delivered,  \* the events handed to the callback or accumulated, in order
    cerr,       \* the error the client call returned ("" is nil)
    ret,        \* the response the client call returned (isNil for nil)
    reqCtxDone, \* the caller's request context has ended (client went away)
    opCalls,    \* the backend and provider calls the operation made, in order
    frames,     \* the SSE frames written to the client, in order
    out,        \* the non-streaming HTTP responses of the operation
    http,       \* the HTTP request the router handed to a handler
    signals     \* PromptLLMStream: the PromptSignals struct

embedVars == <<hpc, wpc, ereq, ctxDone, respChan, wresp, written, calls>>
clientVars == <<op, backend, cpc, pos, fullContent, content, delivered, cerr,
                ret, reqCtxDone, opCalls>>
sinkVars == <<frames, out>>
entryVars == <<http, signals>>
vars == <<hpc, wpc, ereq, ctxDone, respChan, wresp, written, calls,
          op, backend, cpc, pos, fullContent, content, delivered, cerr,
          ret, reqCtxDone, opCalls, frames, out, http, signals>>

\* ------------------------------------------------ helpers missing from src
\* NewOrusResponse(): a fresh envelope (success flag, message, error, data).
NewOrusResponse == [Success |-> FALSE, Message |-> "", Error |-> "", Data |-> NoData]

\* respondJSON(w, status, payload): one HTTP response with that status and body.
respondJSON(status, payload) == [status |-> status, body |-> payload]

\* respondError(w, status, code, message): one HTTP error response.
respondError(status, code, message) ==
    [status |-> status, body |-> [error |-> code, message |-> message]]

\* http.Error(w, text, status): one plain-text HTTP response.
httpError(status, text) == [status |-> status, body |-> [text |-> text]]

\* ------------------------------------------------------ embedding providers
\* What a provider call can return: a vector of 0..MaxDim elements computed
\* from the text, or an error.
Vector(text, n) == [i \in 1..n |-> text]
ProviderOutcomes(provider) ==
    [ok : {TRUE}, dims : 0..MaxDim, err : {""}]
    \cup [ok : {FALSE}, dims : {0},
          err : {IF provider = "BGEM3Embedder" THEN "embed failed"
                 ELSE "error from Ollama (status 500)"}]

\* ------------------------------------------------------------- embedText
\* A switch whose third case hands the client's alias to the backend.
embedTextCallAliasUnmapped(model, text) ==
    CASE model = "bge-m3" ->
           [provider |-> "BGEM3Embedder", api |-> "Embed", model |-> "",
            text |-> text]
      [] model \in {"nomic-embed-text:latest", "ollama-bge-m3"} ->
           [provider |-> "OllamaClient", api |-> "GetEmbedding", model |-> model,
            text |-> text]
      [] OTHER -> NoCall

\* The switch of embedText: the provider call a model identifier selects.
embedTextCall(model, text) ==
    CASE model = "bge-m3" ->
           [provider |-> "BGEM3Embedder", api |-> "Embed", model |-> "",
            text |-> text]
      [] model = "nomic-embed-text:latest" ->
           [provider |-> "OllamaClient", api |-> "GetEmbedding", model |-> model,
            text |-> text]
      [] model = "ollama-bge-m3" ->
           [provider |-> "OllamaClient", api |-> "GetEmbedding",
            model |-> "bge-m3:latest", text |-> text]
      [] OTHER -> NoCall

\* The quantization each case of the switch sets.
embedTextQuantization(model) ==
    CASE model = "bge-m3" -> "float32"
      [] model = "nomic-embed-text:latest" -> "float64"
      [] model = "ollama-bge-m3" -> "float64"
      [] OTHER -> ""

\* The default case: no provider is called.
embedTextInvalid ==
    [NewOrusResponse EXCEPT !.Error = "Invalid model", !.Success = FALSE,
                            !.Message = "Invalid model"]

\* An embedText that reports the backend-facing model name in its data.
embedTextResultCanonicalModel(model, text, res) ==
    IF ~res.ok
    THEN [NewOrusResponse EXCEPT !.Error = res.err, !.Success = FALSE,
                                 !.Message = "Error embedding text with model"]
    ELSE [NewOrusResponse EXCEPT
            !.Data = [kind |-> "embedding",
                      vector |-> Vector(text, res.dims),
                      text |-> text,
                      model |-> IF model = "ollama-bge-m3" THEN "bge-m3:latest"
                                ELSE model,
                      dimensions |-> Len(Vector(text, res.dims)),
                      quantization |-> embedTextQuantization(model)],
            !.Success = TRUE,
            !.Message = "Embed request received successfully"]

\* An embedText whose vector comes from one buffer shared by all requests,
\* which holds what was computed for the text "t1".
embedTextResultSharedBuffer(model, text, res) ==
    IF ~res.ok
    THEN [NewOrusResponse EXCEPT !.Error = res.err, !.Success = FALSE,
                                 !.Message = "Error embedding text with model"]
    ELSE [NewOrusResponse EXCEPT
            !.Data = [kind |-> "embedding",
                      vector |-> Vector("t1", res.dims),
                      text |-> text,
                      model |-> model,
                      dimensions |-> res.dims,
                      quantization |-> embedTextQuantization(model)],
            !.Success = TRUE,
            !.Message = "Embed request received successfully"]

\* The envelope embedText returns once the provider call has returned out.
embedTextResult(model, text, res) ==
    IF ~res.ok
    THEN [NewOrusResponse EXCEPT !.Error = res.err, !.Success = FALSE,
                                 !.Message = "Error embedding text with model"]
    ELSE [NewOrusResponse EXCEPT
            !.Data = [kind |-> "embedding",
                      vector |-> Vector(text, res.dims),
                      text |-> text,
                      model |-> model,
                      dimensions |-> Len(Vector(text, res.dims)),
                      quantization |-> embedTextQuantization(model)],
            !.Success = TRUE,
            !.Message = "Embed request received successfully"]

\* -------------------------------------------- EmbedText, from line 1023 on
\* ctx, respChan and the worker goroutine are created (lines 1023-1034).
EmbedTextDispatchBody(r, model, text) ==
    /\ hpc' = [hpc EXCEPT ![r] = "select"]
    /\ wpc' = [wpc EXCEPT ![r] = "embedText"]
    /\ ereq' = [ereq EXCEPT ![r] = [model |-> model, text |-> text]]
    /\ UNCHANGED <<ctxDone, respChan, wresp, written, calls>>

\* The section entered with a validated (model, text).
EmbedTextDispatch(r, model, text) ==
    /\ hpc[r] = "idle"
    /\ op = NoOp
    /\ http = NoHttp
    /\ EmbedTextDispatchBody(r, model, text)
    /\ UNCHANGED <<clientVars, sinkVars, entryVars>>

\* The 60 s timer of context.WithTimeout fires.
Deadline(r) ==
    /\ hpc[r] = "select"
    /\ ~ctxDone[r]
    /\ ctxDone' = [ctxDone EXCEPT ![r] = TRUE]
    /\ UNCHANGED <<hpc, wpc, ereq, respChan, wresp, written, calls>>
    /\ UNCHANGED <<clientVars, sinkVars, entryVars>>

\* A caller's cancellation that does not reach ctx, as with a context
\* derived from context.Background().
CallerCancelDetached(r) ==
    /\ hpc[r] = "select"
    /\ ~ctxDone[r]
    /\ ~reqCtxDone
    /\ reqCtxDone' = TRUE
    /\ UNCHANGED <<op, backend, cpc, pos, fullContent, content, delivered, cerr,
                   ret, opCalls>>
    /\ UNCHANGED <<embedVars, sinkVars, entryVars>>

\* The caller's request context ends while the handler waits: ctx is derived
\* from r.Context() (line 1023), so ctx.Done() is closed with it.
CallerCancel(r) ==
    /\ hpc[r] = "select"
    /\ ~ctxDone[r]
    /\ ~reqCtxDone
    /\ reqCtxDone' = TRUE
    /\ ctxDone' = [ctxDone EXCEPT ![r] = TRUE]
    /\ UNCHANGED <<hpc, wpc, ereq, respChan, wresp, written, calls>>
    /\ UNCHANGED <<op, backend, cpc, pos, fullContent, content, delivered, cerr,
                   ret, opCalls>>
    /\ UNCHANGED <<sinkVars, entryVars>>

\* The worker enters embedText: the switch either calls a provider or
\* returns the "Invalid model" envelope at once.
WorkerEmbedText(r) ==
    /\ wpc[r] = "embedText"
    /\ LET c == embedTextCall(ereq[r].model, ereq[r].text) IN
         IF c = NoCall
         THEN /\ wresp' = [wresp EXCEPT ![r] = embedTextInvalid]
              /\ wpc' = [wpc EXCEPT ![r] = "send"]
              /\ UNCHANGED calls
         ELSE /\ calls' = [calls EXCEPT ![r] = Append(@, c)]
              /\ wpc' = [wpc EXCEPT ![r] = "provider"]
              /\ UNCHANGED wresp
    /\ UNCHANGED <<hpc, ereq, ctxDone, respChan, written>>
    /\ UNCHANGED <<clientVars, sinkVars, entryVars>>

\* The provider call returns and embedText builds its envelope.
WorkerProviderReturn(r) ==
    /\ wpc[r] = "provider"
    /\ \E res \in ProviderOutcomes(calls[r][Len(calls[r])].provider) :
         wresp' = [wresp EXCEPT
                     ![r] = embedTextResult(ereq[r].model, ereq[r].text, res)]
    /\ wpc' = [wpc EXCEPT ![r] = "send"]
    /\ UNCHANGED <<hpc, ereq, ctxDone, respChan, written, calls>>
    /\ UNCHANGED <<clientVars, sinkVars, entryVars>>

\* The worker's select, case respChan <- resp (lines 1030-1031).
WorkerSend(r) ==
    /\ wpc[r] = "send"
    /\ Len(respChan[r]) < RespChanCap
    /\ respChan' = [respChan EXCEPT ![r] = Append(@, wresp[r])]
    /\ wpc' = [wpc EXCEPT ![r] = "exit"]
    /\ UNCHANGED <<hpc, ereq, ctxDone, wresp, written, calls>>
    /\ UNCHANGED <<clientVars, sinkVars, entryVars>>

\* The worker's select, case <-ctx.Done() (line 1032).
WorkerCtxDone(r) ==
    /\ wpc[r] = "send"
    /\ ctxDone[r]
    /\ wpc' = [wpc EXCEPT ![r] = "exit"]
    /\ UNCHANGED <<hpc, ereq, ctxDone, respChan, wresp, written, calls>>
    /\ UNCHANGED <<clientVars, sinkVars, entryVars>>

\* A receive branch that reports a failed envelope as a timeout.
EmbedTextRecvErrorAsTimeout(r) ==
    /\ hpc[r] = "select"
    /\ respChan[r] # <<>>
    /\ written' = [written EXCEPT
                     ![r] = Append(@, IF Head(respChan[r]).Success
                                      THEN respondJSON(StatusOK, Head(respChan[r]))
                                      ELSE respondJSON(StatusGatewayTimeout,
                                             [NewOrusResponse EXCEPT
                                                !.Error = "Error Timeout",
                                                !.Message = "Error Timeout"]))]
    /\ respChan' = [respChan EXCEPT ![r] = Tail(@)]
    /\ hpc' = [hpc EXCEPT ![r] = "done"]
    /\ ctxDone' = [ctxDone EXCEPT ![r] = TRUE]
    /\ UNCHANGED <<wpc, ereq, wresp, calls>>
    /\ UNCHANGED <<clientVars, sinkVars, entryVars>>

\* The handler's select, case resp := <-respChan (lines 1037-1038); the
\* handler returns and the deferred cancel() closes ctx.Done().
EmbedTextRecv(r) ==
    /\ hpc[r] = "select"
    /\ respChan[r] # <<>>
    /\ written' = [written EXCEPT
                     ![r] = Append(@, respondJSON(StatusOK, Head(respChan[r])))]
    /\ respChan' = [respChan EXCEPT ![r] = Tail(@)]
    /\ hpc' = [hpc EXCEPT ![r] = "done"]
    /\ ctxDone' = [ctxDone EXCEPT ![r] = TRUE]
    /\ UNCHANGED <<wpc, ereq, wresp, calls>>
    /\ UNCHANGED <<clientVars, sinkVars, entryVars>>

\* The envelope the timeout branch builds (lines 1040-1044).
timeoutResp ==
    [NewOrusResponse EXCEPT !.Error = "Error Timeout", !.Success = FALSE,
                            !.Message = "Error Timeout"]

\* A timeout branch that returns without writing a response.
EmbedTextTimeoutSilent(r) ==
    /\ hpc[r] = "select"
    /\ ctxDone[r]
    /\ hpc' = [hpc EXCEPT ![r] = "done"]
    /\ UNCHANGED <<wpc, ereq, ctxDone, respChan, wresp, written, calls>>
    /\ UNCHANGED <<clientVars, sinkVars, entryVars>>

\* A timeout branch that answers with status 500, as the earlier EmbedText did.
EmbedTextTimeoutAs500(r) ==
    /\ hpc[r] = "select"
    /\ ctxDone[r]
    /\ written' = [written EXCEPT
                     ![r] = Append(@, respondJSON(StatusInternalServerError,
                                                  timeoutResp))]
    /\ hpc' = [hpc EXCEPT ![r] = "done"]
    /\ UNCHANGED <<wpc, ereq, ctxDone, respChan, wresp, calls>>
    /\ UNCHANGED <<clientVars, sinkVars, entryVars>>

\* The handler's select, case <-ctx.Done() (lines 1039-1045).
EmbedTextTimeout(r) ==
    /\ hpc[r] = "select"
    /\ ctxDone[r]
    /\ written' = [written EXCEPT
                     ![r] = Append(@, respondJSON(StatusGatewayTimeout, timeoutResp))]
    /\ hpc' = [hpc EXCEPT ![r] = "done"]
    /\ UNCHANGED <<wpc, ereq, ctxDone, respChan, wresp, calls>>
    /\ UNCHANGED <<clientVars, sinkVars, entryVars>>

\* ------------------------------------------------------ the backend's reply
\* A content delta is a sequence of characters.
Deltas == {<<>>, <<"a">>, <<"b">>}

\* An NDJSON object whose decoding fails (syntax error, wrong field type, or
\* a read error inside the object).
Malformed == [kind |-> "malformed", content |-> <<>>, done |-> FALSE, status |-> ""]

\* The objects a chat / generate stream and a pull stream are made of.
ChatItems ==
    [kind : {"event"}, content : Deltas, done : BOOLEAN, status : {""}]
    \cup {Malformed}
PullItems ==
    [kind : {"event"}, content : {<<>>}, done : {FALSE},
     status : {"downloading", "success"}]
    \cup {Malformed}

BoundedSeq(S, n) == UNION {[1..k -> S] : k \in 0..n}

\* What the backend does with one HTTP call: the call fails (doErr), answers
\* with a status other than 200 (non200), or answers 200 with a body of at
\* most MaxItems objects that ends by end-of-stream (eof) or by a read error
\* between two objects (readErr). A backend that does not complete runs into
\* the Timeout of the http.Client (NewOllamaClient, 2000 s): while the
\* headers are awaited Do fails (open = "timeout"), afterwards the next read
\* of the body fails (tail = "timeout").
Backends(S) ==
    [open : {"ok"}, items : BoundedSeq(S, MaxItems),
     tail : {"eof", "readErr", "timeout"}]
    \cup [open : {"doErr", "non200", "timeout"}, items : {<<>>}, tail : {"eof"}]

\* --------------------------------------------------------------- OllamaClient
\* The error of httpClient.Do or of the status check, "" when the body is open.
DoError(client, open) ==
    CASE open = "doErr" ->
           IF client = "PullModel" THEN "transport error" ELSE "error making request"
      [] open = "non200" ->
           IF client = "PullModel" THEN "erro do servidor" ELSE "error from Ollama"
      [] open = "timeout" ->
           IF client = "PullModel" THEN "Client.Timeout exceeded"
           ELSE "error making request: Client.Timeout exceeded"
      [] OTHER -> ""

\* The error a failed decoder.Decode is returned as.
DecodeError(client) ==
    IF client = "PullModel" THEN "json syntax error" ELSE "error decoding response"

\* A client call that tries a failed request a second time.
ClientDoRetryOnce ==
    /\ cpc = "do"
    /\ opCalls' = Append(opCalls, [provider |-> "OllamaClient", api |-> op.client,
                                   model |-> "", text |-> ""])
    /\ cerr' = IF opCalls = <<>> THEN "" ELSE DoError(op.client, backend.open)
    /\ cpc' = IF DoError(op.client, backend.open) = "" THEN "loop"
              ELSE IF opCalls = <<>> THEN "do" ELSE "returned"
    /\ UNCHANGED <<op, backend, pos, fullContent, content, delivered, ret,
                   reqCtxDone>>
    /\ UNCHANGED <<embedVars, sinkVars, entryVars>>

\* httpClient.Do(req) and the StatusOK check of a client call.
ClientDo ==
    /\ cpc = "do"
    /\ opCalls' = Append(opCalls, [provider |-> "OllamaClient", api |-> op.client,
                                   model |-> "", text |-> ""])
    /\ cerr' = DoError(op.client, backend.open)
    /\ cpc' = IF DoError(op.client, backend.open) = "" THEN "loop" ELSE "returned"
    /\ UNCHANGED <<op, backend, pos, fullContent, content, delivered, ret,
                   reqCtxDone>>
    /\ UNCHANGED <<embedVars, sinkVars, entryVars>>

\* decoder.More(): another object follows. It is false at end-of-stream and
\* also when reading ahead fails, by a transport error or by the client's
\* Timeout (encoding/json reports a read error of More() as "no more
\* elements").
More == pos < Len(backend.items)

\* The object decoder.Decode reads next.
NextItem == backend.items[pos + 1]

\* A loop that does not look at the error of decoder.Decode.
DecodeFailsIgnored(item) == FALSE

\* if err := decoder.Decode(&x); err != nil: decoding a malformed object fails.
DecodeFails(item) == item.kind = "malformed"

\* An accumulator that keeps the last fragment only.
AccumulateOverwrite(acc, text) == text

\* fullContent += chatResp.Message.Content (line 119; line 76 in Generate).
Accumulate(acc, text) == acc \o text

\* The loop of Chat and of Generate (ollama_client.go 71-86, 114-130): every
\* decoded object's text is appended to the accumulator; a decode error
\* returns (nil, err); done or the end of the stream returns the accumulator.
AccumulateStep(client) ==
    /\ op.client = client
    /\ cpc = "loop"
    /\ IF ~More
       THEN /\ ret' = [isNil |-> FALSE, content |-> fullContent,
                       done |-> IF pos = 0 THEN FALSE ELSE backend.items[pos].done]
            /\ cpc' = "returned"
            /\ UNCHANGED <<pos, fullContent, delivered, cerr>>
       ELSE IF DecodeFails(NextItem)
       THEN /\ cerr' = DecodeError(client)
            /\ ret' = NilRet
            /\ cpc' = "returned"
            /\ pos' = pos + 1
            /\ UNCHANGED <<fullContent, delivered>>
       ELSE /\ fullContent' = Accumulate(fullContent, NextItem.content)
            /\ delivered' = Append(delivered, pos + 1)
            /\ pos' = pos + 1
            /\ IF NextItem.done
               THEN /\ ret' = [isNil |-> FALSE,
                               content |-> Accumulate(fullContent, NextItem.content),
                               done |-> TRUE]
                    /\ cpc' = "returned"
               ELSE UNCHANGED <<ret, cpc>>
            /\ UNCHANGED cerr
    /\ UNCHANGED <<op, backend, content, reqCtxDone, opCalls>>
    /\ UNCHANGED <<embedVars, sinkVars, entryVars>>

ChatStep == AccumulateStep("Chat")
GenerateStep == AccumulateStep("Generate")

\* An event that carries the text of all objects so far (fullContent declared
\* outside the loop).
ChatStreamCumulative(items, k) ==
    LET RECURSIVE Cat(_)
        Cat(i) == IF i = 0 THEN <<>> ELSE Cat(i - 1) \o items[i].content
    IN [content |-> Cat(k), done |-> items[k].done]

\* ChatStream 157-165: the event handed to the callback. fullContent is
\* declared inside the loop body, so it holds the text of this object only.
ChatStreamEvent(items, k) ==
    LET fullContentLocal == <<>> \o items[k].content
    IN [content |-> fullContentLocal, done |-> items[k].done]

\* One SSE frame: who wrote it, and the fields of its JSON payload.
Frame(src, status, text, done, error) ==
    [src |-> src, status |-> status, content |-> text, done |-> done,
     error |-> error]

\* The latest CallLLM and the earlier one share the streaming branch (lines
\* 1298-1338 and 658-698).
CallLLMHandlers == {"CallLLM", "CallLLMEarlier"}

\* strings.Join(content, "").
RECURSIVE Join(_)
Join(parts) == IF parts = <<>> THEN <<>> ELSE Head(parts) \o Join(Tail(parts))

\* A relay that holds the frames back and writes them all at once when the
\* done event has come.
CallLLMChatStreamStepBatched ==
    /\ op.handler \in CallLLMHandlers
    /\ op.client = "ChatStream"
    /\ cpc = "loop"
    /\ IF ~More
       THEN /\ cpc' = "returned"
            /\ UNCHANGED <<pos, content, delivered, cerr, frames>>
       ELSE IF DecodeFails(NextItem)
       THEN /\ cerr' = DecodeError("ChatStream")
            /\ cpc' = "returned"
            /\ pos' = pos + 1
            /\ UNCHANGED <<content, delivered, frames>>
       ELSE LET chatResp == ChatStreamEvent(backend.items, pos + 1) IN
            /\ content' = Append(content, chatResp.content)
            /\ frames' = IF chatResp.done
                         THEN [i \in 1..(pos + 1) |->
                                 Frame("callback", "", backend.items[i].content,
                                       backend.items[i].done, "")]
                         ELSE frames
            /\ delivered' = Append(delivered, pos + 1)
            /\ pos' = pos + 1
            /\ cpc' = IF chatResp.done THEN "returned" ELSE "loop"
            /\ UNCHANGED cerr
    /\ UNCHANGED <<op, backend, fullContent, ret, reqCtxDone, opCalls, out>>
    /\ UNCHANGED <<embedVars, entryVars>>

\* The loop of ChatStream (155-171) with the callback of CallLLM (1311-1316):
\* each decoded object is written as one data frame, flushed, and its text is
\* appended to content.
CallLLMChatStreamStep ==
    /\ op.handler \in CallLLMHandlers
    /\ op.client = "ChatStream"
    /\ cpc = "loop"
    /\ IF ~More
       THEN /\ cpc' = "returned"
            /\ UNCHANGED <<pos, content, delivered, cerr, frames>>
       ELSE IF DecodeFails(NextItem)
       THEN /\ cerr' = DecodeError("ChatStream")
            /\ cpc' = "returned"
            /\ pos' = pos + 1
            /\ UNCHANGED <<content, delivered, frames>>
       ELSE LET chatResp == ChatStreamEvent(backend.items, pos + 1) IN
            /\ frames' = Append(frames, Frame("callback", "", chatResp.content,
                                              chatResp.done, ""))
            /\ content' = Append(content, chatResp.content)
            /\ delivered' = Append(delivered, pos + 1)
            /\ pos' = pos + 1
            /\ cpc' = IF chatResp.done THEN "returned" ELSE "loop"
            /\ UNCHANGED cerr
    /\ UNCHANGED <<op, backend, fullContent, ret, reqCtxDone, opCalls, out>>
    /\ UNCHANGED <<embedVars, entryVars>>

\* A pull loop that ends as soon as the request context has ended.
PullModelStepStopsOnCancel ==
    /\ op.client = "PullModel"
    /\ cpc = "loop"
    /\ IF ~More \/ reqCtxDone
       THEN /\ cpc' = "returned"
            /\ UNCHANGED <<pos, delivered, cerr, frames>>
       ELSE IF DecodeFails(NextItem)
       THEN /\ cerr' = DecodeError("PullModel")
            /\ cpc' = "returned"
            /\ pos' = pos + 1
            /\ UNCHANGED <<delivered, frames>>
       ELSE /\ frames' = Append(frames, Frame("callback", NextItem.status,
                                              <<>>, FALSE, ""))
            /\ delivered' = Append(delivered, pos + 1)
            /\ pos' = pos + 1
            /\ cpc' = IF NextItem.status = "success" THEN "returned" ELSE "loop"
            /\ UNCHANGED cerr
    /\ UNCHANGED <<op, backend, fullContent, content, ret, reqCtxDone, opCalls, out>>
    /\ UNCHANGED <<embedVars, entryVars>>

\* The loop of PullModel (270-286) with the callback of OllamaPullModel
\* (1106-1117): each decoded record is written as one frame unless the
\* request context has ended; a record with status "success" ends the loop.
PullModelStep ==
    /\ op.client = "PullModel"
    /\ cpc = "loop"
    /\ IF ~More
       THEN /\ cpc' = "returned"
            /\ UNCHANGED <<pos, delivered, cerr, frames>>
       ELSE IF DecodeFails(NextItem)
       THEN /\ cerr' = DecodeError("PullModel")
            /\ cpc' = "returned"
            /\ pos' = pos + 1
            /\ UNCHANGED <<delivered, frames>>
       ELSE /\ frames' = IF reqCtxDone THEN frames
                         ELSE Append(frames, Frame("callback", NextItem.status,
                                                   <<>>, FALSE, ""))
            /\ delivered' = Append(delivered, pos + 1)
            /\ pos' = pos + 1
            /\ cpc' = IF NextItem.status = "success" THEN "returned" ELSE "loop"
            /\ UNCHANGED cerr
    /\ UNCHANGED <<op, backend, fullContent, content, ret, reqCtxDone, opCalls, out>>
    /\ UNCHANGED <<embedVars, entryVars>>

\* The caller's request context ends while the stream is in progress.
RequestCancel ==
    /\ op.handler \in {"OllamaPullModel", "PromptLLMStream"}
    /\ cpc \in {"do", "loop"}
    /\ ~reqCtxDone
    /\ reqCtxDone' = TRUE
    /\ UNCHANGED <<op, backend, cpc, pos, fullContent, content, delivered, cerr,
                   ret, opCalls>>
    /\ UNCHANGED <<embedVars, sinkVars, entryVars>>

\* ------------------------------------------------ CallLLM, from line 1298 on
Idle == /\ op = NoOp
        /\ \A r \in Reqs : hpc[r] = "idle"

\* A branch that starts the backend call without looking at the sink.
CallLLMBranchBodyNoFlusherCheck(stream, flusher, b) ==
    /\ op' = [handler |-> "CallLLM",
              client |-> IF stream THEN "ChatStream" ELSE "Chat",
              stream |-> stream, flusher |-> flusher]
    /\ backend' = b
    /\ cpc' = "do"
    /\ UNCHANGED <<pos, fullContent, content, delivered, cerr, ret, reqCtxDone,
                   opCalls, frames, out>>

\* The validated request enters the stream / non-stream branch. A sink that
\* cannot flush ends the streaming branch at once (1305-1309).
CallLLMBranchBody(stream, flusher, b) ==
    /\ op' = [handler |-> "CallLLM",
              client |-> IF stream THEN "ChatStream" ELSE "Chat",
              stream |-> stream, flusher |-> flusher]
    /\ backend' = b
    /\ IF stream /\ ~flusher
       THEN /\ out' = Append(out, respondError(StatusInternalServerError,
                                  "streaming_not_supported",
                                  "Streaming not supported"))
            /\ cpc' = "done"
       ELSE /\ cpc' = "do"
            /\ UNCHANGED out
    /\ UNCHANGED <<pos, fullContent, content, delivered, cerr, ret, reqCtxDone,
                   opCalls, frames>>

\* The section entered with a validated chat request.
CallLLMBranch(stream, flusher, b) ==
    /\ Idle
    /\ http = NoHttp
    /\ CallLLMBranchBody(stream, flusher, b)
    /\ UNCHANGED <<embedVars, entryVars>>

\* A finish that takes a stream without a done event for a failure.
CallLLMStreamFinishRequiresDone ==
    /\ op.handler \in CallLLMHandlers
    /\ op.stream
    /\ cpc = "returned"
    /\ frames' = IF cerr # ""
                 THEN Append(frames, Frame("handler", "error", <<>>, FALSE, cerr))
                 ELSE IF frames = <<>> \/ ~frames[Len(frames)].done
                 THEN Append(frames, Frame("handler", "error", <<>>, FALSE,
                                           "unexpected end of stream"))
                 ELSE Append(frames, Frame("handler", "success", Join(content),
                                           FALSE, ""))
    /\ cpc' = "done"
    /\ UNCHANGED <<op, backend, pos, fullContent, content, delivered, cerr, ret,
                   reqCtxDone, opCalls, out>>
    /\ UNCHANGED <<embedVars, entryVars>>

\* A finish whose error branch lacks its return: the error frame is followed
\* by the summary frame.
CallLLMStreamFinishNoReturn ==
    /\ op.handler \in CallLLMHandlers
    /\ op.stream
    /\ cpc = "returned"
    /\ frames' = IF cerr # ""
                 THEN frames \o <<Frame("handler", "error", <<>>, FALSE, cerr),
                                  Frame("handler", "success", Join(content),
                                        FALSE, "")>>
                 ELSE Append(frames, Frame("handler", "success", Join(content),
                                           FALSE, ""))
    /\ cpc' = "done"
    /\ UNCHANGED <<op, backend, pos, fullContent, content, delivered, cerr, ret,
                   reqCtxDone, opCalls, out>>
    /\ UNCHANGED <<embedVars, entryVars>>

\* ChatStream has returned (1318-1338): one error frame, or the summary frame.
CallLLMStreamFinish ==
    /\ op.handler \in CallLLMHandlers
    /\ op.stream
    /\ cpc = "returned"
    /\ frames' = IF cerr # ""
                 THEN Append(frames, Frame("handler", "error", <<>>, FALSE, cerr))
                 ELSE Append(frames, Frame("handler", "success", Join(content),
                                           FALSE, ""))
    /\ cpc' = "done"
    /\ UNCHANGED <<op, backend, pos, fullContent, content, delivered, cerr, ret,
                   reqCtxDone, opCalls, out>>
    /\ UNCHANGED <<embedVars, entryVars>>

\* Chat has returned (1340-1359): the error envelope with status 500, or the
\* success payload with status 200.
CallLLMFinish ==
    /\ op.handler = "CallLLM"
    /\ ~op.stream
    /\ cpc = "returned"
    /\ out' = IF cerr # ""
              THEN Append(out, respondJSON(StatusInternalServerError,
                            [NewOrusResponse EXCEPT !.Error = cerr,
                                                    !.Message = "Error calling LLM",
                                                    !.Success = FALSE]))
              ELSE Append(out, respondJSON(StatusOK,
                            [success |-> TRUE, content |-> ret.content,
                             message |-> "LLM request received successfully"]))
    /\ cpc' = "done"
    /\ UNCHANGED <<op, backend, pos, fullContent, content, delivered, cerr, ret,
                   reqCtxDone, opCalls, frames>>
    /\ UNCHANGED <<embedVars, entryVars>>

\* ---------------------------------------- OllamaPullModel, from line 1094 on
OllamaPullModelStreamBody(flusher, b) ==
    /\ op' = [handler |-> "OllamaPullModel", client |-> "PullModel",
              stream |-> TRUE, flusher |-> flusher]
    /\ backend' = b
    /\ IF ~flusher
       THEN /\ out' = Append(out, respondError(StatusInternalServerError,
                                  "streaming_not_supported",
                                  "Streaming not supported"))
            /\ cpc' = "done"
       ELSE /\ cpc' = "do"
            /\ UNCHANGED out
    /\ UNCHANGED <<pos, fullContent, content, delivered, cerr, ret, reqCtxDone,
                   opCalls, frames>>

\* The section entered with a non-empty model name.
OllamaPullModelStream(flusher, b) ==
    /\ Idle
    /\ http = NoHttp
    /\ OllamaPullModelStreamBody(flusher, b)
    /\ UNCHANGED <<embedVars, entryVars>>

\* PullModel has returned (1119-1134): the error frame, or the success frame.
OllamaPullModelFinish ==
    /\ op.handler = "OllamaPullModel"
    /\ cpc = "returned"
    /\ frames' = IF cerr # ""
                 THEN Append(frames, Frame("handler", "error", <<>>, FALSE, cerr))
                 ELSE Append(frames, Frame("handler", "success", <<>>, FALSE, ""))
    /\ cpc' = "done"
    /\ UNCHANGED <<op, backend, pos, fullContent, content, delivered, cerr, ret,
                   reqCtxDone, opCalls, out>>
    /\ UNCHANGED <<embedVars, entryVars>>

\* ------------------------------------------------- a direct Generate call
GenerateCall(b) ==
    /\ Idle
    /\ http = NoHttp
    /\ op' = [handler |-> "direct", client |-> "Generate", stream |-> FALSE,
              flusher |-> TRUE]
    /\ backend' = b
    /\ cpc' = "do"
    /\ UNCHANGED <<pos, fullContent, content, delivered, cerr, ret, reqCtxDone,
                   opCalls>>
    /\ UNCHANGED <<embedVars, sinkVars, entryVars>>

\* ===================================================== the handlers as routed
\* A JSON value of a request body, by type; Absent is a missing field.
Absent == [t |-> "absent", v |-> ""]
JString(x) == [t |-> "string", v |-> x]
JBool(x) == [t |-> "bool", v |-> x]
JNumber == [t |-> "number", v |-> "1"]
JMessages == [t |-> "array", v |-> "messages"]

BodyFields == {"model", "text", "think", "messages", "stream", "name"}

\* The request bodies a client sends to each handler.
EmbedBodies ==
    [model : {Absent, JNumber, JString("bge-m3"), JString("unknown-model")},
     text : {Absent, JNumber, JString("t1"), JString("t2")},
     think : {Absent}, messages : {Absent}, stream : {Absent}, name : {Absent}]
CallLLMBodies ==
    [model : {Absent, JNumber, JString("llama3.1:8b")},
     text : {Absent},
     think : {Absent, JString("yes"), JBool("true")},
     messages : {Absent, JString("hello"), JMessages},
     stream : {Absent, JBool("true"), JBool("false")},
     name : {Absent}]
PullBodies ==
    [model : {Absent}, text : {Absent}, think : {Absent}, messages : {Absent},
     stream : {Absent}, name : {Absent, JString(""), JString("llama3.1:8b")}]
PromptSignalsIn ==
    [readable : BOOLEAN,
     Model : {"", "nomic-embed-text:latest", "bge-m3", "unknown-model"},
     Prompt : {"t1"},
     OperationType : {"embedding", "chat"}]

\* request := new(OrusRequest) (lines 999, 1228): the zero value, whose Body
\* map is nil, so every field is absent. No statement of the handler decodes
\* the HTTP body into it.
NewOrusRequest == [Body |-> [f \in BodyFields |-> Absent]]

\* var req struct{ Name string } (lines 1085-1087): the zero value. No
\* statement of the handler decodes the HTTP body into it.
NewPullRequest == [Name |-> ""]

\* Checks that look at the model field only.
EmbedTextValidateModelOnly(body) ==
    IF body.model.t = "absent"
    THEN [ok |-> FALSE, code |-> "missing_model"]
    ELSE IF body.model.t # "string"
    THEN [ok |-> FALSE, code |-> "invalid_model"]
    ELSE [ok |-> TRUE, code |-> ""]

\* The checks of EmbedText on request.Body (lines 1001-1021).
EmbedTextValidate(body) ==
    IF body.model.t = "absent"
    THEN [ok |-> FALSE, code |-> "missing_model"]
    ELSE IF body.model.t # "string"
    THEN [ok |-> FALSE, code |-> "invalid_model"]
    ELSE IF body.text.t = "absent"
    THEN [ok |-> FALSE, code |-> "missing_text"]
    ELSE IF body.text.t # "string"
    THEN [ok |-> FALSE, code |-> "invalid_text"]
    ELSE [ok |-> TRUE, code |-> ""]

\* The checks of CallLLM on request.Body (lines 1230-1268).
CallLLMValidate(body) ==
    IF body.model.t = "absent"
    THEN [ok |-> FALSE, code |-> "missing_model"]
    ELSE IF body.model.t # "string"
    THEN [ok |-> FALSE, code |-> "invalid_model"]
    ELSE IF body.think.t = "absent"
    THEN [ok |-> FALSE, code |-> "missing_think"]
    ELSE IF body.think.t # "bool"
    THEN [ok |-> FALSE, code |-> "invalid_think"]
    ELSE IF body.messages.t = "absent"
    THEN [ok |-> FALSE, code |-> "missing_messages"]
    ELSE IF body.messages.t # "array"
    THEN [ok |-> FALSE, code |-> "invalid_messages"]
    ELSE [ok |-> TRUE, code |-> ""]

\* stream := false unless the body holds a boolean (lines 1270-1275).
CallLLMStreamFlag(body) == body.stream.t = "bool" /\ body.stream.v = "true"

\* The router hands a request to a handler.
Arrive(handler, body) ==
    /\ http = NoHttp
    /\ http' = [handler |-> handler, body |-> body]
    /\ UNCHANGED <<embedVars, clientVars, sinkVars, signals>>

Fresh(handler) ==
    /\ http.handler = handler
    /\ Idle
    /\ cpc = "idle"
    /\ out = <<>>

\* EmbedText (996-1047): validation, then the dispatch of line 1023.
EmbedText ==
    /\ Fresh("EmbedText")
    /\ LET request == NewOrusRequest
           v == EmbedTextValidate(request.Body)
       IN IF v.ok
          THEN /\ EmbedTextDispatchBody("r1", request.Body.model.v,
                                       request.Body.text.v)
               /\ UNCHANGED <<clientVars, sinkVars>>
          ELSE /\ out' = Append(out, respondError(StatusBadRequest, v.code, v.code))
               /\ cpc' = "done"
               /\ UNCHANGED <<op, backend, pos, fullContent, content, delivered,
                              cerr, ret, reqCtxDone, opCalls, frames>>
               /\ UNCHANGED embedVars
    /\ UNCHANGED entryVars

\* CallLLM (1223-1361): validation, then the branch of line 1298.
CallLLM ==
    /\ Fresh("CallLLM")
    /\ LET request == NewOrusRequest
           v == CallLLMValidate(request.Body)
       IN IF v.ok
          THEN \E flusher \in BOOLEAN, b \in Backends(ChatItems) :
                  CallLLMBranchBody(CallLLMStreamFlag(request.Body), flusher, b)
          ELSE /\ out' = Append(out, respondError(StatusBadRequest, v.code, v.code))
               /\ cpc' = "done"
               /\ UNCHANGED <<op, backend, pos, fullContent, content, delivered,
                              cerr, ret, reqCtxDone, opCalls, frames>>
    /\ UNCHANGED <<embedVars, entryVars>>

\* OllamaPullModel (1084-1135): the name check, then the stream of line 1094.
OllamaPullModel ==
    /\ Fresh("OllamaPullModel")
    /\ LET req == NewPullRequest
       IN IF req.Name # ""
          THEN \E flusher \in BOOLEAN, b \in Backends(PullItems) :
                  OllamaPullModelStreamBody(flusher, b)
          ELSE /\ out' = Append(out, respondError(StatusBadRequest, "missing_name",
                                                  "Field 'name' is required"))
               /\ cpc' = "done"
               /\ UNCHANGED <<op, backend, pos, fullContent, content, delivered,
                              cerr, ret, reqCtxDone, opCalls, frames>>
    /\ UNCHANGED <<embedVars, entryVars>>

\* ------------------------------------------------ PromptLLMStream (840-933)
\* The provider the embedding branch calls (853-867): the remote backend for
\* "nomic-embed-text:latest", the in-process embedder for anything else.
PromptEmbedCall(model, text) ==
    IF model = "nomic-embed-text:latest"
    THEN [provider |-> "OllamaClient", api |-> "GetEmbedding", model |-> model,
          text |-> text]
    ELSE [provider |-> "BGEM3Embedder", api |-> "Embed", model |-> "",
          text |-> text]

\* The handler reads the signals and opens the SSE sink; the embedding branch
\* calls its provider, the chat branch clears Result, patches it and starts
\* ChatStream.
PromptLLMStream ==
    /\ Fresh("PromptLLMStream")
    /\ LET sig == http.body IN
       IF ~sig.readable
       THEN /\ out' = Append(out, httpError(StatusBadRequest,
                                            "failed to read signals"))
            /\ cpc' = "done"
            /\ UNCHANGED <<op, backend, signals, opCalls, frames>>
       ELSE IF sig.OperationType = "embedding"
       THEN /\ op' = [handler |-> "PromptLLMStream", client |-> "embedding",
                      stream |-> TRUE, flusher |-> TRUE]
            /\ signals' = [Prompt |-> sig.Prompt, Model |-> sig.Model,
                           OperationType |-> sig.OperationType,
                           ResponseMode |-> "", Result |-> <<>>]
            /\ opCalls' = Append(opCalls, PromptEmbedCall(sig.Model, sig.Prompt))
            /\ cpc' = "provider"
            /\ UNCHANGED <<backend, frames, out>>
       ELSE /\ op' = [handler |-> "PromptLLMStream", client |-> "ChatStream",
                      stream |-> TRUE, flusher |-> TRUE]
            /\ signals' = [Prompt |-> sig.Prompt,
                           Model |-> IF sig.Model = "" THEN "llama3.1:8b"
                                     ELSE sig.Model,
                           OperationType |-> sig.OperationType,
                           ResponseMode |-> "stream", Result |-> <<>>]
            /\ frames' = Append(frames, Frame("handler", "patch", <<>>, FALSE, ""))
            /\ \E b \in Backends(ChatItems) : backend' = b
            /\ cpc' = "do"
            /\ UNCHANGED <<opCalls, out>>
    /\ UNCHANGED <<pos, fullContent, content, delivered, cerr, ret, reqCtxDone>>
    /\ UNCHANGED <<embedVars, http>>

\* The embedding provider returns (855-872): an error goes to the console of
\* the page, a vector is formatted into Result and patched.
PromptEmbedReturn ==
    /\ op.handler = "PromptLLMStream"
    /\ cpc = "provider"
    /\ \E res \in ProviderOutcomes(opCalls[Len(opCalls)].provider) :
         IF ~res.ok
         THEN /\ frames' = Append(frames, Frame("handler", "console-error", <<>>,
                                                FALSE, res.err))
              /\ UNCHANGED signals
         ELSE LET result == <<opCalls[Len(opCalls)].provider>>
                              \o Vector(signals.Prompt, res.dims) IN
              /\ signals' = [signals EXCEPT !.Result = result]
              /\ frames' = Append(frames, Frame("handler", "patch", result,
                                                FALSE, ""))
    /\ cpc' = "done"
    /\ UNCHANGED <<op, backend, pos, fullContent, content, delivered, cerr, ret,
                   reqCtxDone, opCalls, out, http>>
    /\ UNCHANGED embedVars

\* A callback that assigns the chunk to Result instead of appending it.
PromptChatStreamStepOverwrite ==
    /\ op.handler = "PromptLLMStream"
    /\ op.client = "ChatStream"
    /\ cpc = "loop"
    /\ IF ~More
       THEN /\ cpc' = "returned"
            /\ UNCHANGED <<pos, delivered, cerr, frames, signals>>
       ELSE IF DecodeFails(NextItem)
       THEN /\ cerr' = DecodeError("ChatStream")
            /\ cpc' = "returned"
            /\ pos' = pos + 1
            /\ UNCHANGED <<delivered, frames, signals>>
       ELSE LET chunk == ChatStreamEvent(backend.items, pos + 1) IN
            /\ IF reqCtxDone \/ chunk.content = <<>>
               THEN UNCHANGED <<signals, frames>>
               ELSE /\ signals' = [signals EXCEPT !.Result = chunk.content]
                    /\ frames' = Append(frames,
                                   Frame("callback", "patch",
                                         chunk.content, FALSE, ""))
            /\ delivered' = Append(delivered, pos + 1)
            /\ pos' = pos + 1
            /\ cpc' = IF chunk.done THEN "returned" ELSE "loop"
            /\ UNCHANGED cerr
    /\ UNCHANGED <<op, backend, fullContent, content, ret, reqCtxDone, opCalls,
                   out, http>>
    /\ UNCHANGED embedVars

\* The loop of ChatStream (155-171) with the callback of PromptLLMStream
\* (916-927): nothing happens for a closed sink or an empty chunk; any other
\* chunk is appended to Result, which is patched.
PromptChatStreamStep ==
    /\ op.handler = "PromptLLMStream"
    /\ op.client = "ChatStream"
    /\ cpc = "loop"
    /\ IF ~More
       THEN /\ cpc' = "returned"
            /\ UNCHANGED <<pos, delivered, cerr, frames, signals>>
       ELSE IF DecodeFails(NextItem)
       THEN /\ cerr' = DecodeError("ChatStream")
            /\ cpc' = "returned"
            /\ pos' = pos + 1
            /\ UNCHANGED <<delivered, frames, signals>>
       ELSE LET chunk == ChatStreamEvent(backend.items, pos + 1) IN
            /\ IF reqCtxDone \/ chunk.content = <<>>
               THEN UNCHANGED <<signals, frames>>
               ELSE /\ signals' = [signals EXCEPT !.Result = @ \o chunk.content]
                    /\ frames' = Append(frames,
                                   Frame("callback", "patch",
                                         signals.Result \o chunk.content, FALSE, ""))
            /\ delivered' = Append(delivered, pos + 1)
            /\ pos' = pos + 1
            /\ cpc' = IF chunk.done THEN "returned" ELSE "loop"
            /\ UNCHANGED cerr
    /\ UNCHANGED <<op, backend, fullContent, content, ret, reqCtxDone, opCalls,
                   out, http>>
    /\ UNCHANGED embedVars

\* ChatStream has returned (929-932): an error goes to the console of the page.
PromptLLMStreamFinish ==
    /\ op.handler = "PromptLLMStream"
    /\ cpc = "returned"
    /\ frames' = IF cerr # ""
                 THEN Append(frames, Frame("handler", "console-error", <<>>,
                                           FALSE, cerr))
                 ELSE frames
    /\ cpc' = "done"
    /\ UNCHANGED <<op, backend, pos, fullContent, content, delivered, cerr, ret,
                   reqCtxDone, opCalls, out>>
    /\ UNCHANGED <<embedVars, entryVars>>

\* ============================================ the earlier handler variants
\* The handlers of the earlier OrusAPI (lines 362-496 and 634-724): they
\* decode the body and read its fields with one-value type assertions.
EarlierReq == "r1"
EarlierEmbedHandlers == {"EmbedTextEarlier", "BGE_M3_Embed", "OllamaEmbed"}

\* The request bodies a client sends to the earlier handlers: read tells
\* whether io.ReadAll succeeds, json whether the bytes are a JSON object.
EarlierEmbedBodies ==
    [read : BOOLEAN, json : BOOLEAN,
     model : {Absent, JNumber, JString("bge-m3"), JString("nomic-embed-text"),
              JString("unknown-model")},
     text : {Absent, JString("t1")},
     think : {Absent}, messages : {Absent}, stream : {Absent}, name : {Absent}]
EarlierCallLLMBodies ==
    [read : BOOLEAN, json : {TRUE},
     model : {Absent, JString("llama3.1:8b")},
     text : {Absent}, think : {Absent},
     messages : {Absent, JString("hello"), JMessages},
     stream : {Absent, JBool("true"), JBool("false")},
     name : {Absent}]

\* json.Unmarshal(body, request), its error ignored (lines 371, 408, 457,
\* 643): the fields of a JSON object, the zero value for anything else.
Unmarshal(body) ==
    IF body.json THEN [Body |-> [f \in BodyFields |-> body[f]]]
    ELSE NewOrusRequest

\* x.(T) in its one-value form panics unless x holds a T; an absent key of
\* the map reads as a nil interface and panics too.
AssertionPanics(v, t) == v.t # t

\* The assertions of the worker goroutine (lines 380-381, 417, 466-467).
EarlierWorkerPanics(handler, body) ==
    \/ handler # "BGE_M3_Embed" /\ AssertionPanics(body.model, "string")
    \/ AssertionPanics(body.text, "string")

\* The switch of the earlier embedText (lines 569-631).
embedTextEarlierCall(model, text) ==
    CASE model = "bge-m3" ->
           [provider |-> "BGEM3Embedder", api |-> "Embed", model |-> "",
            text |-> text]
      [] model \in {"nomic-embed-text", "ollama"} ->
           [provider |-> "OllamaClient", api |-> "GetEmbedding", model |-> model,
            text |-> text]
      [] OTHER -> NoCall

\* The provider call each earlier handler makes (lines 382, 417, 468).
EarlierCall(handler, model, text) ==
    CASE handler = "EmbedTextEarlier" -> embedTextEarlierCall(model, text)
      [] handler = "BGE_M3_Embed" ->
           [provider |-> "BGEM3Embedder", api |-> "Embed", model |-> "",
            text |-> text]
      [] OTHER ->
           [provider |-> "OllamaClient", api |-> "GetEmbedding", model |-> model,
            text |-> text]

\* The envelope the worker builds from the provider's result: embedText
\* reports vector, text, model and dimensions (579-584), BGE_M3_Embed and
\* OllamaEmbed the vector only (425-427, 476-478).
EarlierResult(handler, model, text, res) ==
    IF ~res.ok
    THEN [NewOrusResponse EXCEPT !.Error = res.err, !.Success = FALSE,
                                 !.Message = "Error embedding text"]
    ELSE [NewOrusResponse EXCEPT
            !.Data = IF handler = "EmbedTextEarlier"
                     THEN [kind |-> "embedding",
                           vector |-> Vector(text, res.dims),
                           text |-> text, model |-> model,
                           dimensions |-> Len(Vector(text, res.dims))]
                     ELSE [kind |-> "vector", vector |-> Vector(text, res.dims)],
            !.Success = TRUE,
            !.Message = "Embed request received successfully"]

\* A goroutine of the process has panicked: the process has ended.
Crashed == \E r \in Reqs : wpc[r] = "panic"

\* An earlier embed handler up to its select (lines 363-385): the body is
\* read and decoded, the unbuffered channel, the context and the worker
\* goroutine are created. A failed ReadAll is answered with status 500.
EmbedEarlier(handler) ==
    /\ Fresh(handler)
    /\ IF ~http.body.read
       THEN /\ out' = Append(out, httpError(StatusInternalServerError, "read error"))
            /\ cpc' = "done"
            /\ UNCHANGED <<hpc, wpc>>
       ELSE /\ hpc' = [hpc EXCEPT ![EarlierReq] = "select"]
            /\ wpc' = [wpc EXCEPT ![EarlierReq] = "start"]
            /\ UNCHANGED <<out, cpc>>
    /\ UNCHANGED <<ereq, ctxDone, respChan, wresp, written, calls>>
    /\ UNCHANGED <<op, backend, pos, fullContent, content, delivered, cerr, ret,
                   reqCtxDone, opCalls, frames>>
    /\ UNCHANGED entryVars

EmbedTextEarlier == EmbedEarlier("EmbedTextEarlier")
BGE_M3_Embed == EmbedEarlier("BGE_M3_Embed")
OllamaEmbed == EmbedEarlier("OllamaEmbed")

\* The worker's select (lines 376-382): it returns when ctx is done already;
\* otherwise it asserts the fields, which panics for a missing or mistyped
\* one, and calls the provider (embedText's default case calls none).
EarlierWorker(r) ==
    /\ wpc[r] = "start"
    /\ LET request == Unmarshal(http.body).Body IN
       IF ctxDone[r]
       THEN /\ wpc' = [wpc EXCEPT ![r] = "exit"]
            /\ UNCHANGED <<ereq, wresp, calls>>
       ELSE IF EarlierWorkerPanics(http.handler, request)
       THEN /\ wpc' = [wpc EXCEPT ![r] = "panic"]
            /\ UNCHANGED <<ereq, wresp, calls>>
       ELSE LET model == request.model.v
                text == request.text.v
                c == EarlierCall(http.handler, model, text)
            IN /\ ereq' = [ereq EXCEPT ![r] = [model |-> model, text |-> text]]
               /\ IF c = NoCall
                  THEN /\ wresp' = [wresp EXCEPT ![r] = embedTextInvalid]
                       /\ wpc' = [wpc EXCEPT ![r] = "send"]
                       /\ UNCHANGED calls
                  ELSE /\ calls' = [calls EXCEPT ![r] = Append(@, c)]
                       /\ wpc' = [wpc EXCEPT ![r] = "provider"]
                       /\ UNCHANGED wresp
    /\ UNCHANGED <<hpc, ctxDone, respChan, written>>
    /\ UNCHANGED <<clientVars, sinkVars, entryVars>>

\* The provider call returns and the worker builds its envelope.
EarlierProviderReturn(r) ==
    /\ wpc[r] = "provider"
    /\ \E res \in ProviderOutcomes(calls[r][Len(calls[r])].provider) :
         wresp' = [wresp EXCEPT
                     ![r] = EarlierResult(http.handler, ereq[r].model,
                                          ereq[r].text, res)]
    /\ wpc' = [wpc EXCEPT ![r] = "send"]
    /\ UNCHANGED <<hpc, ereq, ctxDone, respChan, written, calls>>
    /\ UNCHANGED <<clientVars, sinkVars, entryVars>>

\* respChan <- response meets case response := <-respChan (lines 383, 387):
\* the channel is unbuffered, so the send completes only while the handler
\* waits in its select; the handler answers 200 and returns.
EarlierSendRecv(r) ==
    /\ wpc[r] = "send"
    /\ hpc[r] = "select"
    /\ written' = [written EXCEPT ![r] = Append(@, respondJSON(StatusOK, wresp[r]))]
    /\ wpc' = [wpc EXCEPT ![r] = "exit"]
    /\ hpc' = [hpc EXCEPT ![r] = "done"]
    /\ ctxDone' = [ctxDone EXCEPT ![r] = TRUE]
    /\ UNCHANGED <<ereq, respChan, wresp, calls>>
    /\ UNCHANGED <<clientVars, sinkVars, entryVars>>

\* The handler's select, case <-ctx.Done() (lines 389-394): status 500 with
\* the timeout envelope. BGE_M3_Embed and OllamaEmbed write the timeout into
\* the response object their worker writes too (lines 419-430, 439-443): when
\* the worker is past its provider call the two sets of writes race, and the
\* envelope sent either is the handler's or also carries the worker's
\* Success and Message.
EarlierTimeout(r) ==
    /\ hpc[r] = "select"
    /\ ctxDone[r]
    /\ \E torn \in IF http.handler # "EmbedTextEarlier" /\ wpc[r] = "send"
                   THEN BOOLEAN ELSE {FALSE} :
         written' = [written EXCEPT
                       ![r] = Append(@, respondJSON(StatusInternalServerError,
                                IF torn
                                THEN [timeoutResp EXCEPT
                                        !.Success = wresp[r].Success,
                                        !.Message = wresp[r].Message,
                                        !.Data = wresp[r].Data]
                                ELSE timeoutResp))]
    /\ hpc' = [hpc EXCEPT ![r] = "done"]
    /\ UNCHANGED <<wpc, ereq, ctxDone, respChan, wresp, calls>>
    /\ UNCHANGED <<clientVars, sinkVars, entryVars>>

\* The earlier CallLLM up to its branch (lines 635-669). The assertion of
\* model and of stream panics for a missing or mistyped field; messages that
\* do not decode are answered with status 400, and the handler goes on.
CallLLMEarlier ==
    /\ Fresh("CallLLMEarlier")
    /\ LET request == Unmarshal(http.body).Body
           badMessages == request.messages.t \notin {"absent", "array"}
           out1 == IF badMessages
                   THEN Append(out, respondJSON(StatusBadRequest,
                          [NewOrusResponse EXCEPT
                             !.Error = "json: cannot unmarshal",
                             !.Message = "Error unmarshalling messages"]))
                   ELSE out
       IN
       IF ~http.body.read
       THEN /\ out' = Append(out, httpError(StatusInternalServerError, "read error"))
            /\ cpc' = "done"
            /\ UNCHANGED <<op, backend>>
       ELSE IF AssertionPanics(request.model, "string")
       THEN /\ cpc' = "panic"
            /\ UNCHANGED <<op, backend, out>>
       ELSE IF AssertionPanics(request.stream, "bool")
       THEN /\ cpc' = "panic"
            /\ out' = out1
            /\ UNCHANGED <<op, backend>>
       ELSE \E flusher \in BOOLEAN, b \in Backends(ChatItems) :
              LET stream == request.stream.v = "true" IN
              /\ op' = [handler |-> "CallLLMEarlier",
                        client |-> IF stream THEN "ChatStream" ELSE "Chat",
                        stream |-> stream, flusher |-> flusher]
              /\ backend' = b
              /\ IF stream /\ ~flusher
                 THEN /\ out' = Append(out1, respondError(StatusInternalServerError,
                                         "streaming_not_supported",
                                         "Streaming not supported"))
                      /\ cpc' = "done"
                 ELSE /\ out' = out1
                      /\ cpc' = "do"
    /\ UNCHANGED <<pos, fullContent, content, delivered, cerr, ret, reqCtxDone,
                   opCalls, frames>>
    /\ UNCHANGED <<embedVars, entryVars>>

\* Chat has returned in the earlier CallLLM (lines 705-722): the error
\* envelope with status 500, or the success envelope with status 200.
CallLLMEarlierFinish ==
    /\ op.handler = "CallLLMEarlier"
    /\ ~op.stream
    /\ cpc = "returned"
    /\ out' = IF cerr # ""
              THEN Append(out, respondJSON(StatusInternalServerError,
                            [NewOrusResponse EXCEPT !.Error = cerr,
                                                    !.Message = "Error calling LLM",
                                                    !.Success = FALSE]))
              ELSE Append(out, respondJSON(StatusOK,
                            [NewOrusResponse EXCEPT
                               !.Data = [kind |-> "llm", response |-> ret.content],
                               !.Success = TRUE,
                               !.Message = "LLM request received successfully"]))
    /\ cpc' = "done"
    /\ UNCHANGED <<op, backend, pos, fullContent, content, delivered, cerr, ret,
                   reqCtxDone, opCalls, frames>>
    /\ UNCHANGED <<embedVars, entryVars>>

\* ================================================ the first BGE_M3_Embed
\* The BGE_M3_Embed of the first OrusAPI (lines 209-252). Its head is that of
\* the earlier handlers: ReadAll, Unmarshal, an unbuffered channel, a context
\* of 60 s and the worker goroutine.
BGE_M3_EmbedFirst == EmbedEarlier("BGE_M3_EmbedFirst")

\* The worker's select (lines 223-227): it returns when ctx is done already;
\* otherwise it asserts the text, which panics for a missing or mistyped
\* one, and calls the embedder.
BGE_M3_EmbedFirstWorker(r) ==
    /\ wpc[r] = "start"
    /\ LET request == Unmarshal(http.body).Body IN
       IF ctxDone[r]
       THEN /\ wpc' = [wpc EXCEPT ![r] = "exit"]
            /\ UNCHANGED <<ereq, calls>>
       ELSE IF AssertionPanics(request.text, "string")
       THEN /\ wpc' = [wpc EXCEPT ![r] = "panic"]
            /\ UNCHANGED <<ereq, calls>>
       ELSE /\ ereq' = [ereq EXCEPT ![r] = [model |-> "", text |-> request.text.v]]
            /\ calls' = [calls EXCEPT
                           ![r] = Append(@, [provider |-> "BGEM3Embedder",
                                             api |-> "Embed", model |-> "",
                                             text |-> request.text.v])]
            /\ wpc' = [wpc EXCEPT ![r] = "provider"]
    /\ UNCHANGED <<hpc, ctxDone, respChan, wresp, written>>
    /\ UNCHANGED <<clientVars, sinkVars, entryVars>>

\* The writes of lines 229-231 to the response object.
FirstErrorWrites(e, res) == [e EXCEPT !.Error = res.err, !.Success = FALSE]

\* The response object after those of the writes of lines 234-239 that are
\* named in fields.
FirstSuccessWrites(e, vector, fields) ==
    [e EXCEPT !.Data = IF "Data" \in fields
                       THEN [kind |-> "vector", vector |-> vector] ELSE @,
              !.Success = IF "Success" \in fields THEN TRUE ELSE @,
              !.Message = IF "Message" \in fields
                          THEN "Embed request received successfully" ELSE @]
FirstSuccessFields == {"Data", "Success", "Message"}

\* Embed returns (lines 227-240). With an error the worker writes the error
\* fields and reaches the send of line 232; without one it writes the result
\* and reaches the send of line 240.
BGE_M3_EmbedFirstProviderReturn(r) ==
    /\ wpc[r] = "provider"
    /\ \E res \in ProviderOutcomes("BGEM3Embedder") :
         IF ~res.ok
         THEN /\ wresp' = [wresp EXCEPT ![r] = FirstErrorWrites(@, res)]
              /\ wpc' = [wpc EXCEPT ![r] = "send-error"]
         ELSE /\ wresp' = [wresp EXCEPT
                             ![r] = FirstSuccessWrites(@, Vector(ereq[r].text, res.dims),
                                                       FirstSuccessFields)]
              /\ wpc' = [wpc EXCEPT ![r] = "send"]
    /\ UNCHANGED <<hpc, ereq, ctxDone, respChan, written, calls>>
    /\ UNCHANGED <<clientVars, sinkVars, entryVars>>

\* A send of the worker meets case response := <-respChan (lines 232 or 240,
\* and 244-245): the handler answers 200 with the object it received. After
\* the send of line 232 the worker goes on to line 234, so the handler
\* encodes the object while the worker writes it: the body carries any of
\* those writes.
BGE_M3_EmbedFirstSendRecv(r) ==
    /\ wpc[r] \in {"send", "send-error"}
    /\ hpc[r] = "select"
    /\ \E seen \in IF wpc[r] = "send-error" THEN SUBSET FirstSuccessFields
                   ELSE {{}} :
         written' = [written EXCEPT
                       ![r] = Append(@, respondJSON(StatusOK,
                                FirstSuccessWrites(wresp[r], <<>>, seen)))]
    /\ wpc' = [wpc EXCEPT ![r] = IF wpc[r] = "send-error" THEN "after-send"
                                 ELSE "exit"]
    /\ hpc' = [hpc EXCEPT ![r] = "done"]
    /\ ctxDone' = [ctxDone EXCEPT ![r] = TRUE]
    /\ UNCHANGED <<ereq, respChan, wresp, calls>>
    /\ UNCHANGED <<clientVars, sinkVars, entryVars>>

\* After the send of line 232 the if statement ends without a return: the
\* worker writes Data, Success and Message (lines 234-239) into the object it
\* has sent and reaches the send of line 240, which nobody receives.
BGE_M3_EmbedFirstFallThrough(r) ==
    /\ wpc[r] = "after-send"
    /\ wresp' = [wresp EXCEPT ![r] = FirstSuccessWrites(@, <<>>, FirstSuccessFields)]
    /\ wpc' = [wpc EXCEPT ![r] = "send-again"]
    /\ UNCHANGED <<hpc, ereq, ctxDone, respChan, written, calls>>
    /\ UNCHANGED <<clientVars, sinkVars, entryVars>>

\* The handler's select, case <-ctx.Done() (lines 246-250): status 500; the
\* handler writes Error and Success into the response object and encodes it.
\* When the worker is past its embedder call its writes to the same object
\* are not ordered with the handler's: each field of the body is the
\* handler's or the worker's.
BGE_M3_EmbedFirstTimeout(r) ==
    /\ hpc[r] = "select"
    /\ ctxDone[r]
    /\ \E body \in
         IF wpc[r] \in {"send", "send-error"}
         THEN [Success : {FALSE, wresp[r].Success},
               Message : {"", wresp[r].Message},
               Error : {"Error Timeout"} \cup ({wresp[r].Error} \ {""}),
               Data : {NoData, wresp[r].Data}]
         ELSE {[NewOrusResponse EXCEPT !.Error = "Error Timeout"]} :
         written' = [written EXCEPT
                       ![r] = Append(@, respondJSON(StatusInternalServerError, body))]
    /\ hpc' = [hpc EXCEPT ![r] = "done"]
    /\ UNCHANGED <<wpc, ereq, ctxDone, respChan, wresp, calls>>
    /\ UNCHANGED <<clientVars, sinkVars, entryVars>>

\* ---------------------------------------------------------- specifications
Init ==
    /\ hpc = [r \in Reqs |-> "idle"]
    /\ wpc = [r \in Reqs |-> "none"]
    /\ ereq = [r \in Reqs |-> NoReq]
    /\ ctxDone = [r \in Reqs |-> FALSE]
    /\ respChan = [r \in Reqs |-> <<>>]
    /\ wresp = [r \in Reqs |-> NewOrusResponse]
    /\ written = [r \in Reqs |-> <<>>]
    /\ calls = [r \in Reqs |-> <<>>]
    /\ op = NoOp
    /\ backend = NoBackend
    /\ cpc = "idle"
    /\ pos = 0
    /\ fullContent = <<>>
    /\ content = <<>>
    /\ delivered = <<>>
    /\ cerr = ""
    /\ ret = NilRet
    /\ reqCtxDone = FALSE
    /\ opCalls = <<>>
    /\ frames = <<>>
    /\ out = <<>>
    /\ http = NoHttp
    /\ signals = NoSignals

NextCore ==
    \/ \E r \in Reqs, m \in EmbedModels, t \in Texts : EmbedTextDispatch(r, m, t)
    \/ \E r \in Reqs : Deadline(r)
    \/ \E r \in Reqs : CallerCancel(r)
    \/ \E r \in Reqs : WorkerEmbedText(r)
    \/ \E r \in Reqs : WorkerProviderReturn(r)
    \/ \E r \in Reqs : WorkerSend(r)
    \/ \E r \in Reqs : WorkerCtxDone(r)
    \/ \E r \in Reqs : EmbedTextRecv(r)
    \/ \E r \in Reqs : EmbedTextTimeout(r)
    \/ Idle /\ \E stream \in BOOLEAN, flusher \in BOOLEAN, b \in Backends(ChatItems) :
                  (stream \/ flusher) /\ CallLLMBranch(stream, flusher, b)
    \/ Idle /\ \E flusher \in BOOLEAN, b \in Backends(PullItems) :
                  OllamaPullModelStream(flusher, b)
    \/ Idle /\ \E b \in Backends(ChatItems) : GenerateCall(b)
    \/ ClientDo
    \/ ChatStep
    \/ GenerateStep
    \/ CallLLMChatStreamStep
    \/ PullModelStep
    \/ RequestCancel
    \/ CallLLMStreamFinish
    \/ CallLLMFinish
    \/ OllamaPullModelFinish

SpecCore == Init /\ [][NextCore]_vars

Next ==
    \/ http = NoHttp /\ \E b \in EmbedBodies : Arrive("EmbedText", b)
    \/ http = NoHttp /\ \E b \in CallLLMBodies : Arrive("CallLLM", b)
    \/ http = NoHttp /\ \E b \in PullBodies : Arrive("OllamaPullModel", b)
    \/ http = NoHttp /\ \E b \in PromptSignalsIn : Arrive("PromptLLMStream", b)
    \/ EmbedText
    \/ CallLLM
    \/ OllamaPullModel
    \/ PromptLLMStream
    \/ PromptEmbedReturn
    \/ ClientDo
    \/ PromptChatStreamStep
    \/ RequestCancel
    \/ PromptLLMStreamFinish

Spec == Init /\ [][Next]_vars

NextEarlier ==
    \/ http = NoHttp /\ \E h \in EarlierEmbedHandlers, b \in EarlierEmbedBodies :
                          Arrive(h, b)
    \/ http = NoHttp /\ \E b \in EarlierCallLLMBodies : Arrive("CallLLMEarlier", b)
    \/ EmbedTextEarlier
    \/ BGE_M3_Embed
    \/ OllamaEmbed
    \/ ~Crashed /\ \E r \in Reqs : EarlierWorker(r)
    \/ ~Crashed /\ \E r \in Reqs : EarlierProviderReturn(r)
    \/ ~Crashed /\ \E r \in Reqs : EarlierSendRecv(r)
    \/ ~Crashed /\ \E r \in Reqs : Deadline(r)
    \/ ~Crashed /\ \E r \in Reqs : EarlierTimeout(r)
    \/ CallLLMEarlier
    \/ ClientDo
    \/ ChatStep
    \/ CallLLMChatStreamStep
    \/ CallLLMStreamFinish
    \/ CallLLMEarlierFinish

SpecEarlier == Init /\ [][NextEarlier]_vars

\* The earlier handlers under a scheduler that runs every goroutine that can
\* take a step: a behaviour stops only where no step is possible.
SpecEarlierLive == SpecEarlier /\ WF_vars(NextEarlier)

NextFirst ==
    \/ http = NoHttp /\ \E b \in EarlierEmbedBodies : Arrive("BGE_M3_EmbedFirst", b)
    \/ BGE_M3_EmbedFirst
    \/ ~Crashed /\ \E r \in Reqs : BGE_M3_EmbedFirstWorker(r)
    \/ ~Crashed /\ \E r \in Reqs : BGE_M3_EmbedFirstProviderReturn(r)
    \/ ~Crashed /\ \E r \in Reqs : BGE_M3_EmbedFirstSendRecv(r)
    \/ ~Crashed /\ \E r \in Reqs : BGE_M3_EmbedFirstFallThrough(r)
    \/ ~Crashed /\ \E r \in Reqs : Deadline(r)
    \/ ~Crashed /\ \E r \in Reqs : BGE_M3_EmbedFirstTimeout(r)

SpecFirst == Init /\ [][NextFirst]_vars

\* A non-streaming CallLLM that the server handles after an embed-text
\* request has been answered and its worker has ended.
CallLLMAfterEmbedText(b) ==
    /\ op = NoOp
    /\ http = NoHttp
    /\ \E r \in Reqs : hpc[r] = "done" /\ wpc[r] = "exit"
    /\ \A r \in Reqs : hpc[r] \in {"idle", "done"} /\ wpc[r] \in {"none", "exit"}
    /\ CallLLMBranchBody(FALSE, TRUE, b)
    /\ UNCHANGED <<embedVars, entryVars>>

\* The backend replies to the call-llm request: bodies of at most one object.
NonStreamBackends == {b \in Backends(ChatItems) : Len(b.items) <= 1}

\* The non-streaming handlers of the latest OrusAPI serving one request
\* after the other: an embed-text request, then a call-llm request.
NextNonStream ==
    \/ /\ op = NoOp
       /\ \E m \in EmbedModels, t \in Texts : EmbedTextDispatch(EarlierReq, m, t)
    \/ \E r \in Reqs : Deadline(r)
    \/ \E r \in Reqs : WorkerEmbedText(r)
    \/ \E r \in Reqs : WorkerProviderReturn(r)
    \/ \E r \in Reqs : WorkerSend(r)
    \/ \E r \in Reqs : WorkerCtxDone(r)
    \/ \E r \in Reqs : EmbedTextRecv(r)
    \/ \E r \in Reqs : EmbedTextTimeout(r)
    \/ op = NoOp /\ \E b \in NonStreamBackends : CallLLMAfterEmbedText(b)
    \/ ClientDo
    \/ ChatStep
    \/ CallLLMFinish

SpecNonStream == Init /\ [][NextNonStream]_vars

\* A streaming CallLLM that the server handles after a non-streaming one has
\* been answered, and to which the backend sends the same reply: the
\* decoder, the callback's slice and the error start afresh, the result of
\* the earlier Chat call stays at hand for comparison.
CallLLMStreamAfterChat ==
    /\ op.handler = "CallLLM"
    /\ op.client = "Chat"
    /\ cpc = "done"
    /\ op' = [handler |-> "CallLLM", client |-> "ChatStream", stream |-> TRUE,
              flusher |-> TRUE]
    /\ cpc' = "do"
    /\ pos' = 0
    /\ content' = <<>>
    /\ delivered' = <<>>
    /\ cerr' = ""
    /\ UNCHANGED <<backend, fullContent, ret, reqCtxDone, opCalls, frames, out>>
    /\ UNCHANGED <<embedVars, entryVars>>

\* The synchronous and the streaming chat path of the latest CallLLM, fed
\* with the same backend reply one after the other.
NextChatPaths ==
    \/ Idle /\ \E b \in Backends(ChatItems) : CallLLMBranch(FALSE, TRUE, b)
    \/ ClientDo
    \/ ChatStep
    \/ CallLLMFinish
    \/ CallLLMStreamAfterChat
    \/ CallLLMChatStreamStep
    \/ CallLLMStreamFinish

SpecChatPaths == Init /\ [][NextChatPaths]_vars

\* ==================================================================== claims
\* The identifiers of the route table of embedText.
RouteModels == {"bge-m3", "nomic-embed-text:latest", "ollama-bge-m3"}

\* An object that ends its stream normally: done for chat and generate,
\* status "success" for pull.
Terminal(client, item) ==
    IF client = "PullModel" THEN item.status = "success" ELSE item.done

\* Index of the object that ends a stream normally: the first terminal one
\* after position i, or the last one when none is terminal.
RECURSIVE FirstTerminal(_, _, _)
FirstTerminal(client, items, i) ==
    IF i >= Len(items) THEN Len(items)
    ELSE IF Terminal(client, items[i + 1]) THEN i + 1
    ELSE FirstTerminal(client, items, i + 1)

LastRead(client, items) == FirstTerminal(client, items, 0)

\* The ordered concatenation of the texts of the first n objects.
RECURSIVE ConcatContents(_, _)
ConcatContents(items, n) ==
    IF n = 0 THEN <<>> ELSE ConcatContents(items, n - 1) \o items[n].content

WellFormedUpTo(items, n) == \A i \in 1..n : items[i].kind = "event"

\* Index of the first malformed object, Len + 1 when there is none.
FirstMalformed(items) ==
    IF \E i \in 1..Len(items) : items[i].kind = "malformed"
    THEN CHOOSE i \in 1..Len(items) :
           /\ items[i].kind = "malformed"
           /\ \A j \in 1..(i - 1) : items[j].kind = "event"
    ELSE Len(items) + 1

\* C1: every dispatched embed-text request gets exactly one HTTP response,
\* the worker's envelope with status 200 or the timeout envelope with status
\* 504: never two, and while the handler waits in its select one of its
\* branches or the deadline can still happen.
C1_ExactlyOneResponse ==
    \A r \in Reqs :
      /\ Len(written[r]) <= 1
      /\ hpc[r] = "select" =>
           /\ written[r] = <<>>
           /\ ENABLED (Deadline(r) \/ EmbedTextRecv(r) \/ EmbedTextTimeout(r))
      /\ hpc[r] = "done" =>
           /\ Len(written[r]) = 1
           /\ \/ /\ written[r][1] = respondJSON(StatusOK, wresp[r])
                 /\ wpc[r] = "exit"
              \/ written[r][1] = respondJSON(StatusGatewayTimeout, timeoutResp)

\* C1 witness: the handler answered the timeout and the worker then put its
\* envelope into the channel; one response was written.
C1_Witness ==
    \E r \in Reqs :
      /\ hpc[r] = "done"
      /\ wpc[r] = "exit"
      /\ respChan[r] # <<>>
      /\ Len(written[r]) = 1
      /\ written[r][1].status = StatusGatewayTimeout

C3_ValidBodyPassesValidation ==
    LET rejected == \E i \in 1..Len(out) : out[i].status = StatusBadRequest IN
    /\ (http.handler = "EmbedText" /\ EmbedTextValidate(http.body).ok) => ~rejected
    /\ (http.handler = "CallLLM" /\ CallLLMValidate(http.body).ok) => ~rejected
    /\ (/\ http.handler = "OllamaPullModel"
        /\ http.body.name.t = "string"
        /\ http.body.name.v # "") => ~rejected

\* C4: once embedText has its envelope, the provider call made and the
\* quantization reported are the ones of the three-entry table; any other
\* identifier makes no call and yields the "Invalid model" envelope; two
\* requests with the same identifier report the same quantization.
C4_RouteTable ==
    /\ \A r \in Reqs :
         wpc[r] \in {"send", "exit"} =>
           LET m == ereq[r].model
               t == ereq[r].text
               e == wresp[r]
           IN
           /\ m = "bge-m3" =>
                /\ calls[r] = <<[provider |-> "BGEM3Embedder", api |-> "Embed",
                                 model |-> "", text |-> t]>>
                /\ e.Success => e.Data.quantization = "float32"
           /\ m = "nomic-embed-text:latest" =>
                /\ calls[r] = <<[provider |-> "OllamaClient", api |-> "GetEmbedding",
                                 model |-> "nomic-embed-text:latest", text |-> t]>>
                /\ e.Success => e.Data.quantization = "float64"
           /\ m = "ollama-bge-m3" =>
                /\ calls[r] = <<[provider |-> "OllamaClient", api |-> "GetEmbedding",
                                 model |-> "bge-m3:latest", text |-> t]>>
                /\ e.Success => e.Data.quantization = "float64"
           /\ m \notin RouteModels =>
                /\ calls[r] = <<>>
                /\ ~e.Success
                /\ e.Error = "Invalid model"
                /\ e.Data = NoData
    /\ \A r, q \in Reqs :
         (/\ wpc[r] \in {"send", "exit"}
          /\ wpc[q] \in {"send", "exit"}
          /\ ereq[r].model = ereq[q].model
          /\ wresp[r].Success
          /\ wresp[q].Success) =>
           wresp[r].Data.quantization = wresp[q].Data.quantization

\* C4 witness: the alias "ollama-bge-m3" was embedded successfully while the
\* other request, for "unknown-model", got its envelope.
C4_Witness ==
    \E r, q \in Reqs :
      /\ ereq[r].model = "ollama-bge-m3"
      /\ wpc[r] = "exit"
      /\ wresp[r].Success
      /\ ereq[q].model = "unknown-model"
      /\ wpc[q] = "exit"

\* C5: on every embedding entry point a model identifier outside the route
\* table never causes a call to an embedding provider.
C5_UnknownModelNoProviderCall ==
    /\ \A r \in Reqs :
         (hpc[r] # "idle" /\ ereq[r].model \notin RouteModels) => calls[r] = <<>>
    /\ (/\ op.handler = "PromptLLMStream"
        /\ op.client = "embedding"
        /\ signals.Model \notin RouteModels) => opCalls = <<>>

\* C6: when Chat or Generate has returned for a body whose objects are well
\* formed up to the first done object (up to the end when none is done), it
\* returned no error and the ordered concatenation of the texts of exactly
\* those objects; objects after the first done one add nothing. The result
\* is a function of the sequence, so feeding it again gives the same string.
C6_ChatConcatenation ==
    (/\ op.client \in {"Chat", "Generate"}
     /\ cpc \in {"returned", "done"}
     /\ backend.open = "ok"
     /\ WellFormedUpTo(backend.items, LastRead(op.client, backend.items))) =>
       LET n == LastRead(op.client, backend.items) IN
       /\ cerr = ""
       /\ ~ret.isNil
       /\ ret.content = ConcatContents(backend.items, n)
       /\ pos = n
       /\ delivered = [i \in 1..n |-> i]
       /\ (op.handler = "CallLLM" /\ cpc = "done") =>
            out = <<respondJSON(StatusOK,
                      [success |-> TRUE,
                       content |-> ConcatContents(backend.items, n),
                       message |-> "LLM request received successfully"])>>

\* C6 witness: Chat returned for three well-formed objects with distinct
\* non-empty texts, the second of which is the first done one.
C6_Witness ==
    /\ op.client = "Chat"
    /\ cpc = "returned"
    /\ Len(backend.items) = 3
    /\ \A i \in 1..3 : backend.items[i].kind = "event"
    /\ backend.items[1].content = <<"a">>
    /\ ~backend.items[1].done
    /\ backend.items[2].content = <<"b">>
    /\ backend.items[2].done
    /\ backend.items[3].content = <<"a">>
    /\ ret.content = <<"a", "b">>

\* C7: when the streaming CallLLM has finished for a body whose objects
\* e1..en are well formed, en being the first done one (or the last one when
\* none is done), it wrote exactly n data frames, frame i carrying the text
\* and the done flag of ei, followed by exactly one summary frame with status
\* "success" whose content is the concatenation of the n texts.
C7_StreamFramesThenSummary ==
    (/\ op.handler = "CallLLM"
     /\ op.stream
     /\ op.flusher
     /\ cpc = "done"
     /\ backend.open = "ok"
     /\ WellFormedUpTo(backend.items, LastRead("ChatStream", backend.items))) =>
       LET n == LastRead("ChatStream", backend.items) IN
       /\ Len(frames) = n + 1
       /\ \A i \in 1..n :
            frames[i] = Frame("callback", "", backend.items[i].content,
                              backend.items[i].done, "")
       /\ frames[n + 1] = Frame("handler", "success",
                                ConcatContents(backend.items, n), FALSE, "")
       /\ out = <<>>

\* C7 witness: two objects "a" then "b" (done) were relayed and the summary
\* frame carries "ab".
C7_Witness ==
    /\ op.handler = "CallLLM"
    /\ op.stream
    /\ cpc = "done"
    /\ Len(backend.items) >= 2
    /\ backend.items[1] = [kind |-> "event", content |-> <<"a">>, done |-> FALSE,
                           status |-> ""]
    /\ backend.items[2] = [kind |-> "event", content |-> <<"b">>, done |-> TRUE,
                           status |-> ""]
    /\ Len(frames) = 3
    /\ frames[3].content = <<"a", "b">>

\* C8: a pull stream of well-formed records that reaches end-of-stream
\* without a record of status "success" is an error: PullModel returns an
\* error and the last frame of OllamaPullModel is an error frame.
C8_PullWithoutSuccessIsError ==
    (/\ op.handler = "OllamaPullModel"
     /\ op.flusher
     /\ backend.open = "ok"
     /\ backend.tail = "eof"
     /\ WellFormedUpTo(backend.items, Len(backend.items))
     /\ \A i \in 1..Len(backend.items) : backend.items[i].status # "success") =>
       /\ cpc \in {"returned", "done"} => cerr # ""
       /\ cpc = "done" =>
            /\ frames # <<>>
            /\ frames[Len(frames)].src = "handler"
            /\ frames[Len(frames)].status = "error"

\* The producer of the operation in progress fails: the HTTP call fails or
\* answers another status than 200, or the decoder meets a malformed object
\* or a read error before any terminating object.
ProducerFails ==
    \/ backend.open # "ok"
    \/ FirstMalformed(backend.items) <= LastRead(op.client, backend.items)
    \/ /\ backend.tail = "readErr"
       /\ \A i \in 1..Len(backend.items) :
            /\ backend.items[i].kind = "event"
            /\ ~Terminal(op.client, backend.items[i])

\* C9: when the producer of a streaming CallLLM or OllamaPullModel fails
\* after k events were relayed, the handler ends with the k data frames
\* followed by exactly one frame of status "error", and no summary or success
\* frame of the handler.
C9_ProducerFailureOneErrorFrame ==
    (/\ op.handler \in {"CallLLM", "OllamaPullModel"}
     /\ op.stream
     /\ op.flusher
     /\ ~reqCtxDone
     /\ cpc = "done"
     /\ ProducerFails) =>
       LET k == Len(delivered) IN
       /\ Len(frames) = k + 1
       /\ \A i \in 1..k : frames[i].src = "callback"
       /\ frames[k + 1].src = "handler"
       /\ frames[k + 1].status = "error"
       /\ \A i \in 1..Len(frames) :
            frames[i].src = "handler" => frames[i].status # "success"

\* C10: in Chat, Generate, ChatStream and PullModel no object at or after the
\* first malformed one is ever delivered or accumulated, and the decoder,
\* once it has read the malformed object, has stopped there with the decode
\* error.
C10_MalformedAbortsStream ==
    op.client \in {"Chat", "Generate", "ChatStream", "PullModel"} =>
      LET m == FirstMalformed(backend.items) IN
      /\ \A i \in 1..Len(delivered) : delivered[i] < m
      /\ pos <= m
      /\ Len(frames) <= m + 1
      /\ pos = m =>
           /\ cpc \in {"returned", "done"}
           /\ cerr = DecodeError(op.client)
           /\ ret.isNil
           /\ delivered = [i \in 1..(m - 1) |-> i]

\* C10 witness: ChatStream relayed one event, met a malformed object and
\* returned; a well-formed object after it was never read.
C10_Witness ==
    /\ op.client = "ChatStream"
    /\ cpc = "done"
    /\ Len(backend.items) = 3
    /\ backend.items[1].kind = "event"
    /\ backend.items[2].kind = "malformed"
    /\ backend.items[3].kind = "event"
    /\ backend.items[3].content # <<>>
    /\ pos = 2
    /\ delivered = <<1>>
    /\ cerr = "error decoding response"


\* C11: in the latest EmbedText and CallLLM a body with a missing or mistyped
\* required field (model, text; model, think, messages) fails validation;
\* the request is answered by the handler's own step with one response of
\* status 400 and is never dispatched: no worker goroutine, no provider or
\* backend call, no frame.
C11_InvalidRequestNeverDispatched ==
    /\ \A b \in EmbedBodies :
         (b.model.t # "string" \/ b.text.t # "string") => ~EmbedTextValidate(b).ok
    /\ \A b \in CallLLMBodies :
         (b.model.t # "string" \/ b.think.t # "bool" \/ b.messages.t # "array")
           => ~CallLLMValidate(b).ok
    /\ (\/ http.handler = "EmbedText" /\ ~EmbedTextValidate(http.body).ok
        \/ http.handler = "CallLLM" /\ ~CallLLMValidate(http.body).ok) =>
         /\ \A r \in Reqs : hpc[r] = "idle" /\ wpc[r] = "none" /\ calls[r] = <<>>
         /\ op = NoOp
         /\ opCalls = <<>>
         /\ frames = <<>>
         /\ cpc \in {"idle", "done"}
         /\ cpc = "idle" => out = <<>>
         /\ cpc = "done" =>
              /\ Len(out) = 1
              /\ out[1].status = StatusBadRequest

\* C11 witness: an embed-text body with a model and a mistyped text was
\* answered with status 400.
C11_Witness ==
    /\ http.handler = "EmbedText"
    /\ http.body.model.t = "string"
    /\ http.body.text.t = "number"
    /\ cpc = "done"
    /\ Len(out) = 1
    /\ out[1].status = StatusBadRequest


\* The decoded body of the routed request lacks the model field or the
\* payload field of its operation (text; messages or stream).
LacksRequiredField ==
    /\ http.handler \in EarlierEmbedHandlers \cup {"CallLLMEarlier"}
    /\ http.body.read
    /\ LET request == Unmarshal(http.body).Body IN
       \/ request.model.t = "absent"
       \/ http.handler \in EarlierEmbedHandlers /\ request.text.t = "absent"
       \/ http.handler = "CallLLMEarlier"
          /\ (request.messages.t = "absent" \/ request.stream.t = "absent")

\* C12: in the earlier EmbedText, BGE_M3_Embed, OllamaEmbed and CallLLM a
\* request whose body lacks the model field or the payload field never makes
\* the handler or its worker goroutine panic, and once the request has ended
\* it was answered with a validation error (status 400) and nothing else.
C12_MissingFieldIsValidationError ==
    LacksRequiredField =>
      /\ ~Crashed
      /\ cpc # "panic"
      /\ \A i \in 1..Len(written[EarlierReq]) :
           written[EarlierReq][i].status = StatusBadRequest
      /\ hpc[EarlierReq] = "done" => written[EarlierReq] # <<>>
      /\ cpc = "done" =>
           /\ out # <<>>
           /\ \A i \in 1..Len(out) : out[i].status = StatusBadRequest


\* C13: a streaming CallLLM or an OllamaPullModel whose sink cannot flush
\* has ended by the handler's own step with the single response
\* "streaming_not_supported"; no frame was written and no backend call was
\* started for it.
C13_NoFlusherFailsFast ==
    (/\ op.handler \in {"CallLLM", "OllamaPullModel"}
     /\ op.stream
     /\ ~op.flusher) =>
       /\ cpc = "done"
       /\ out = <<respondError(StatusInternalServerError,
                               "streaming_not_supported",
                               "Streaming not supported")>>
       /\ frames = <<>>
       /\ opCalls = <<>>
       /\ pos = 0
       /\ delivered = <<>>

\* C13 witness: a streaming CallLLM whose backend had events to send ended
\* with "streaming_not_supported" on a sink without flushing.
C13_Witness ==
    /\ op.handler = "CallLLM"
    /\ op.stream
    /\ ~op.flusher
    /\ backend.open = "ok"
    /\ backend.items # <<>>
    /\ Len(out) = 1
    /\ out[1].body.error = "streaming_not_supported"


\* An envelope computed from the text and model of request r: a success
\* envelope names them and every element of its vector comes from that text;
\* an error envelope carries no data.
OwnEnvelope(r, e) ==
    IF e.Success
    THEN /\ e.Data.text = ereq[r].text
         /\ e.Data.model = ereq[r].model
         /\ e.Data.dimensions = Len(e.Data.vector)
         /\ \A i \in 1..Len(e.Data.vector) : e.Data.vector[i] = ereq[r].text
    ELSE e.Data = NoData

\* C14: with two embed requests in flight, every provider call of a request
\* carries its own text, the envelope its worker holds, the one in its
\* channel and the one written to its client are computed from its own text
\* and model, and the written one is its own worker's envelope or the timeout
\* envelope.
C14_NoCrossRequestData ==
    \A r \in Reqs :
      /\ \A i \in 1..Len(calls[r]) : calls[r][i].text = ereq[r].text
      /\ wpc[r] \in {"send", "exit"} => OwnEnvelope(r, wresp[r])
      /\ \A i \in 1..Len(respChan[r]) :
           respChan[r][i] = wresp[r] /\ OwnEnvelope(r, respChan[r][i])
      /\ \A i \in 1..Len(written[r]) :
           /\ OwnEnvelope(r, written[r][i].body)
           /\ written[r][i].body \in {wresp[r], timeoutResp}

\* C14 witness: two requests for different texts are in flight together:
\* the first one's one-element vector waits in its channel while the second
\* worker holds its own one-element vector.
C14_Witness ==
    /\ ereq["r1"].text = "t1"
    /\ ereq["r2"].text = "t2"
    /\ hpc["r1"] = "select"
    /\ Len(respChan["r1"]) = 1
    /\ respChan["r1"][1].Success
    /\ Len(respChan["r1"][1].Data.vector) = 1
    /\ hpc["r2"] = "select"
    /\ wpc["r2"] = "send"
    /\ wresp["r2"].Success
    /\ Len(wresp["r2"].Data.vector) = 1
    /\ calls["r1"] # <<>>
    /\ calls["r2"] # <<>>


\* The error texts a provider can return.
ProviderErrors(provider) ==
    {o.err : o \in {x \in ProviderOutcomes(provider) : ~x.ok}}

\* C15: whenever the handler of EmbedText receives from its channel the
\* envelope of a worker whose provider call returned an error, the response
\* it writes is that envelope: success=false, error = the provider's error
\* text, no data; it is not the timeout envelope and its status is not 504.
C15_ProviderErrorIsBackendError ==
    [][\A r \in Reqs :
         (/\ EmbedTextRecv(r)
          /\ calls[r] # <<>>
          /\ ~Head(respChan[r]).Success) =>
            /\ Len(written'[r]) = 1
            /\ written'[r][1].status # StatusGatewayTimeout
            /\ written'[r][1].body # timeoutResp
            /\ ~written'[r][1].body.Success
            /\ written'[r][1].body.Error
                 \in ProviderErrors(calls[r][Len(calls[r])].provider)
            /\ written'[r][1].body.Error # "Error Timeout"
            /\ written'[r][1].body.Data = NoData]_vars

\* C15 witness: the remote backend failed for "nomic-embed-text:latest" and
\* the client got the worker's error envelope.
C15_Witness ==
    \E r \in Reqs :
      /\ hpc[r] = "done"
      /\ ereq[r].model = "nomic-embed-text:latest"
      /\ Len(calls[r]) = 1
      /\ Len(written[r]) = 1
      /\ written[r][1].status = StatusOK
      /\ ~written[r][1].body.Success
      /\ written[r][1].body.Error = "error from Ollama (status 500)"


\* The routed request of an earlier embed handler carries the fields its
\* worker reads, with the right types.
EarlierEmbedRequestValid ==
    /\ http.handler \in EarlierEmbedHandlers
    /\ http.body.read
    /\ ~EarlierWorkerPanics(http.handler, Unmarshal(http.body).Body)

\* C16: for a well-formed embed request the worker goroutine invokes the
\* embedding operation exactly once: it makes at most one provider call, and
\* a worker that is past its select, or has ended, has invoked the operation
\* with the request's model and text, also when the deadline fired.
C16_OperationInvokedExactlyOnce ==
    EarlierEmbedRequestValid =>
      /\ Len(calls[EarlierReq]) <= 1
      /\ wpc[EarlierReq] \in {"provider", "send", "exit"} =>
           ereq[EarlierReq] = [model |-> Unmarshal(http.body).Body.model.v,
                               text |-> Unmarshal(http.body).Body.text.v]


\* The backend of the operation in progress did not complete: the headers
\* never came, or the body stopped before any terminating object.
BackendDidNotComplete ==
    \/ backend.open = "timeout"
    \/ /\ backend.open = "ok"
       /\ backend.tail = "timeout"
       /\ \A i \in 1..Len(backend.items) :
            /\ backend.items[i].kind = "event"
            /\ ~Terminal(op.client, backend.items[i])

\* The error texts that name a timeout.
TimeoutTexts ==
    {"Error Timeout", "Client.Timeout exceeded",
     "error making request: Client.Timeout exceeded"}

\* The client was told of a timeout: a response with status 504 or an error
\* envelope naming a timeout, or a last frame of status "error" naming one.
TimeoutOutcomeDelivered ==
    \/ /\ out # <<>>
       /\ \/ out[Len(out)].status = StatusGatewayTimeout
          \/ /\ out[Len(out)].status # StatusOK
             /\ out[Len(out)].body.Error \in TimeoutTexts
    \/ /\ frames # <<>>
       /\ frames[Len(frames)].status = "error"
       /\ frames[Len(frames)].error \in TimeoutTexts

\* C17: when a CallLLM or an OllamaPullModel whose backend did not complete
\* has ended, it ended with a timeout outcome delivered to the client, and
\* not with a success response or a success frame.
C17_BackendCallUnderDeadline ==
    (/\ op.handler \in {"CallLLM", "OllamaPullModel"}
     /\ op.stream => op.flusher
     /\ cpc = "done"
     /\ BackendDidNotComplete) =>
       /\ TimeoutOutcomeDelivered
       /\ \A i \in 1..Len(frames) : frames[i].status # "success"
       /\ \A i \in 1..Len(out) : out[i].status # StatusOK


\* The statuses the embed-text responses of a provider failure were sent
\* with, and the statuses of the call-llm responses of a backend failure.
EmbedUpstreamStatuses ==
    UNION {{written[r][i].status :
              i \in {j \in 1..Len(written[r]) :
                       /\ ~written[r][j].body.Success
                       /\ calls[r] # <<>>
                       /\ written[r][j].body.Error
                            \in ProviderErrors(calls[r][Len(calls[r])].provider)}} :
           r \in Reqs}
CallLLMUpstreamStatuses ==
    {out[i].status :
       i \in {j \in 1..Len(out) :
                /\ op.handler = "CallLLM"
                /\ ~op.stream
                /\ cerr # ""
                /\ out[j].status # StatusOK}}

\* C18: among the non-streaming handlers an error of one kind is answered
\* with success=false and with one HTTP status, whichever handler it arises
\* in: an upstream failure of embed-text and an upstream failure of the
\* non-streaming call-llm carry the same status, an invalid model one
\* status, a timeout one status.
C18_StableStatusPerKind ==
    /\ Cardinality(EmbedUpstreamStatuses \cup CallLLMUpstreamStatuses) <= 1
    /\ \A i \in 1..Len(out) :
         out[i].status # StatusOK => ~out[i].body.Success
    /\ \A r \in Reqs : \A i \in 1..Len(written[r]) :
         LET w == written[r][i] IN
         /\ w.body = timeoutResp => w.status = StatusGatewayTimeout /\ ~w.body.Success
         /\ w.body = embedTextInvalid => w.status = StatusOK /\ ~w.body.Success


\* The streaming request in progress and the state it is in: Open while the
\* backend call runs, Closed once the handler has returned.
StreamingRequest ==
    /\ op.handler \in {"CallLLM", "OllamaPullModel"}
    /\ op.stream
    /\ op.flusher
StreamOpen == StreamingRequest /\ cpc \in {"do", "loop", "returned"}
StreamClosed == StreamingRequest /\ cpc = "done"

\* C19: a streaming CallLLM or OllamaPullModel goes from Open to Closed and
\* never back. While it is Open no closing frame has been written; once it
\* is Closed exactly one closing frame has been written, as the last frame,
\* and no step writes a further frame, invokes the callback or reads from
\* the backend again.
C19_ClosedIsFinal ==
    /\ [](/\ StreamOpen => \A i \in 1..Len(frames) : frames[i].src = "callback"
          /\ StreamClosed =>
               /\ frames # <<>>
               /\ frames[Len(frames)].src = "handler"
               /\ frames[Len(frames)].status \in {"success", "error"}
               /\ \A i \in 1..(Len(frames) - 1) : frames[i].src = "callback")
    /\ [][StreamClosed =>
            /\ StreamClosed'
            /\ frames' = frames
            /\ delivered' = delivered
            /\ pos' = pos
            /\ op' = op]_vars

\* C19 witness: a streaming CallLLM is Closed after the first, done, object;
\* the two objects that follow it in the body were never relayed.
C19_Witness ==
    /\ StreamClosed
    /\ op.handler = "CallLLM"
    /\ Len(backend.items) = 3
    /\ backend.items[1].kind = "event"
    /\ backend.items[1].done
    /\ backend.items[2].kind = "event"
    /\ Len(frames) = 2
    /\ delivered = <<1>>


\* C20: a pull-model stream that was opened and has ended wrote exactly one
\* terminal frame, of status "success" or "error", as its last frame, and no
\* frame before it has status "success": the backend's own final "success"
\* record is not relayed as one more success frame.
C20_PullOneTerminalFrame ==
    (StreamClosed /\ op.handler = "OllamaPullModel") =>
      /\ frames # <<>>
      /\ frames[Len(frames)].src = "handler"
      /\ frames[Len(frames)].status \in {"success", "error"}
      /\ \A i \in 1..(Len(frames) - 1) :
           /\ frames[i].src = "callback"
           /\ frames[i].status # "success"


\* The precision of the vectors of each route.
RouteQuantization(model) ==
    IF model = "bge-m3" THEN "float32" ELSE "float64"

\* C21: a success envelope of embedText belongs to a known model; its error
\* is empty, its data holds the vector, dimensions equal to the number of
\* elements of that vector, the quantization of the route, and as model the
\* identifier the client asked for, also when the backend was called under
\* another name. The envelope reaches the client unchanged.
C21_SuccessEnvelopeShape ==
    \A r \in Reqs :
      /\ (wpc[r] \in {"send", "exit"} /\ wresp[r].Success) =>
           LET d == wresp[r].Data IN
           /\ ereq[r].model \in RouteModels
           /\ wresp[r].Error = ""
           /\ d.kind = "embedding"
           /\ d.dimensions = Len(d.vector)
           /\ d.dimensions \in 0..MaxDim
           /\ d.quantization = RouteQuantization(ereq[r].model)
           /\ d.model = ereq[r].model
           /\ Len(calls[r]) = 1
      /\ \A i \in 1..Len(written[r]) :
           written[r][i].body.Success =>
             /\ written[r][i].body = wresp[r]
             /\ written[r][i].status = StatusOK

\* C21 witness: the alias "ollama-bge-m3" was embedded by the backend under
\* the name "bge-m3:latest" and the client got a one-element vector.
C21_Witness ==
    \E r \in Reqs :
      /\ ereq[r].model = "ollama-bge-m3"
      /\ calls[r] # <<>>
      /\ calls[r][1].model = "bge-m3:latest"
      /\ Len(written[r]) = 1
      /\ written[r][1].body.Success
      /\ written[r][1].body.Data.model = "ollama-bge-m3"
      /\ written[r][1].body.Data.dimensions = 1


\* A decode or transport error ends the chat stream of the operation in
\* progress: a malformed object comes before any done object, or the body
\* breaks off by a read error before any done object.
ChatStreamEndsByError ==
    /\ backend.open = "ok"
    /\ \/ FirstMalformed(backend.items) <= LastRead(op.client, backend.items)
       \/ /\ backend.tail = "readErr"
          /\ \A i \in 1..Len(backend.items) :
               backend.items[i].kind = "event" /\ ~backend.items[i].done

\* The number of events that precede the error.
EventsBeforeError ==
    IF FirstMalformed(backend.items) <= Len(backend.items)
    THEN FirstMalformed(backend.items) - 1
    ELSE Len(backend.items)

\* C22: when a decode or transport error has ended a chat stream after k
\* events, the content accumulated from those k events is still there for
\* the caller: Chat returns a response that holds it, and on the streaming
\* path the callback's accumulator and the k data frames hold it.
C22_ContentKeptOnError ==
    (/\ op.handler = "CallLLM"
     /\ op.stream => op.flusher
     /\ cpc \in {"returned", "done"}
     /\ ChatStreamEndsByError
     /\ ConcatContents(backend.items, EventsBeforeError) # <<>>) =>
       LET k == EventsBeforeError IN
       /\ op.client = "Chat" =>
            /\ ~ret.isNil
            /\ ret.content = ConcatContents(backend.items, k)
       /\ op.client = "ChatStream" =>
            /\ Join(content) = ConcatContents(backend.items, k)
            /\ Len(frames) >= k
            /\ \A i \in 1..k : frames[i].content = backend.items[i].content


\* The body of the chat backend ends by end-of-stream and none of its
\* objects, all well formed, has done=true.
EndOfStreamWithoutDone ==
    /\ backend.open = "ok"
    /\ backend.tail = "eof"
    /\ \A i \in 1..Len(backend.items) :
         backend.items[i].kind = "event" /\ ~backend.items[i].done

\* C23: a chat stream that reaches end-of-stream without a done event is a
\* normal completion: the client call returns no error, Chat returns the
\* text of all objects and CallLLM answers 200 with it, and the streaming
\* CallLLM ends with the success summary frame and writes no error frame.
C23_EndOfStreamIsNormal ==
    (/\ op.handler = "CallLLM"
     /\ op.stream => op.flusher
     /\ cpc \in {"returned", "done"}
     /\ EndOfStreamWithoutDone) =>
       LET n == Len(backend.items) IN
       /\ cerr = ""
       /\ pos = n
       /\ op.client = "Chat" =>
            /\ ~ret.isNil
            /\ ~ret.done
            /\ ret.content = ConcatContents(backend.items, n)
            /\ cpc = "done" =>
                 Len(out) = 1 /\ out[1].status = StatusOK
       /\ op.client = "ChatStream" =>
            /\ \A i \in 1..Len(frames) : frames[i].status # "error"
            /\ cpc = "done" =>
                 frames[Len(frames)] =
                   Frame("handler", "success", ConcatContents(backend.items, n),
                         FALSE, "")

\* C23 witness: a streaming CallLLM relayed two events without done, met
\* end-of-stream and wrote the summary frame.
C23_Witness ==
    /\ op.handler = "CallLLM"
    /\ op.client = "ChatStream"
    /\ cpc = "done"
    /\ EndOfStreamWithoutDone
    /\ Len(backend.items) = 2
    /\ backend.items[1].content = <<"a">>
    /\ backend.items[2].content = <<"b">>
    /\ Len(frames) = 3
    /\ frames[3].status = "success"


\* C24: at every moment of a streaming CallLLM, the i-th event handed to the
\* callback, and so the i-th data frame, carries the content of the i-th
\* backend object and nothing of the earlier ones; the cumulative text
\* exists only as the join of the callback's accumulator.
C24_EventsAreDeltas ==
    (/\ op.handler = "CallLLM"
     /\ op.client = "ChatStream"
     /\ op.flusher) =>
       LET k == Len(delivered) IN
       /\ Len(content) = k
       /\ Len(frames) \in {k, k + 1}
       /\ \A i \in 1..k :
            /\ delivered[i] = i
            /\ frames[i].src = "callback"
            /\ frames[i].content = backend.items[i].content
            /\ content[i] = backend.items[i].content
       /\ Join(content) = ConcatContents(backend.items, k)

\* C24 witness: while the stream is still open, the second frame carries
\* "b" alone although the first event carried "a".
C24_Witness ==
    /\ op.handler = "CallLLM"
    /\ op.client = "ChatStream"
    /\ cpc = "loop"
    /\ Len(frames) = 2
    /\ backend.items[1].content = <<"a">>
    /\ frames[1].content = <<"a">>
    /\ frames[2].content = <<"b">>
    /\ Join(content) = <<"a", "b">>


\* C25: when the synchronous path and then the streaming path have handled
\* the same sequence of well-formed chat events, the content Chat returned
\* equals the content of the closing summary frame, and that content equals
\* the concatenation of the contents of the data frames written before it.
C25_SyncEqualsStreaming ==
    (/\ op.handler = "CallLLM"
     /\ op.client = "ChatStream"
     /\ cpc = "done"
     /\ backend.open = "ok"
     /\ WellFormedUpTo(backend.items, LastRead("Chat", backend.items))) =>
       LET n == Len(frames) - 1 IN
       /\ ~ret.isNil
       /\ Len(out) = 1
       /\ out[1].status = StatusOK
       /\ frames[n + 1].src = "handler"
       /\ frames[n + 1].status = "success"
       /\ frames[n + 1].content = ret.content
       /\ frames[n + 1].content = out[1].body.content
       /\ frames[n + 1].content = ConcatContents(frames, n)

\* C25 witness: both paths handled "a", "b" (done) and both report "ab".
C25_Witness ==
    /\ op.client = "ChatStream"
    /\ cpc = "done"
    /\ Len(backend.items) = 2
    /\ backend.items[1].content = <<"a">>
    /\ backend.items[2].content = <<"b">>
    /\ backend.items[2].done
    /\ ret.content = <<"a", "b">>
    /\ Len(frames) = 3
    /\ frames[3].content = <<"a", "b">>


\* The data frames written so far.
DataFrames == SelectSeq(frames, LAMBDA f : f.src = "callback")

\* C26: in a streaming CallLLM the decoder never runs ahead of the sink: at
\* every moment the events decoded so far have all been written, one frame
\* each, in arrival order, and the step that decodes event k+1 is the step
\* that writes its frame after the k frames already written.
C26_NoBatching ==
    /\ []((/\ op.handler = "CallLLM"
           /\ op.client = "ChatStream"
           /\ op.flusher) =>
            /\ Len(DataFrames) = Len(delivered)
            /\ pos - Len(DataFrames) \in {0, 1}
            /\ pos - Len(DataFrames) = 1 => DecodeFails(backend.items[pos])
            /\ \A i \in 1..Len(DataFrames) :
                 DataFrames[i] = Frame("callback", "", backend.items[i].content,
                                       backend.items[i].done, ""))
    /\ [][(/\ op.handler = "CallLLM"
           /\ op.client = "ChatStream"
           /\ pos' = pos + 1
           /\ ~DecodeFails(backend.items[pos + 1])) =>
            frames' = Append(frames,
                             Frame("callback", "", backend.items[pos + 1].content,
                                   backend.items[pos + 1].done, ""))]_vars

\* C26 witness: two frames are out while a third object waits in the body
\* undecoded.
C26_Witness ==
    /\ op.handler = "CallLLM"
    /\ op.client = "ChatStream"
    /\ cpc = "loop"
    /\ Len(backend.items) = 3
    /\ backend.items[3].kind = "event"
    /\ pos = 2
    /\ Len(frames) = 2
    /\ frames[1].content # frames[2].content


\* C27: no request calls the backend twice: an operation makes at most one
\* HTTP call, an embed request at most one provider call, and once a call
\* has failed (the client call returned an error, the worker holds a failed
\* envelope) no step makes another call for that request.
C27_NoRetry ==
    /\ [](/\ Len(opCalls) <= 1
          /\ \A r \in Reqs : Len(calls[r]) <= 1
          /\ cerr # "" => cpc \in {"returned", "done"})
    /\ [][/\ cerr # "" => opCalls' = opCalls
          /\ \A r \in Reqs :
               (wpc[r] \in {"send", "exit"} /\ ~wresp[r].Success) =>
                 calls'[r] = calls[r]]_vars

\* C27 witness: the backend answered a chat call with a status other than
\* 200 and the request ended with that one call.
C27_Witness ==
    /\ op.client \in {"Chat", "ChatStream"}
    /\ backend.open = "non200"
    /\ cpc = "done"
    /\ cerr = "error from Ollama"
    /\ Len(opCalls) = 1


C29_WorkerEventuallyEnds ==
    \A r \in Reqs : (wpc[r] = "send") ~> (wpc[r] = "exit")


\* C30: the worker of an embed handler sends on the result channel at most
\* once per request, on the success path and on the embed-error path, and
\* leaves the envelope as it was once it has sent it: it never stands at a
\* further send, and no step of a worker that has sent changes the envelope.
C30_OneSendEnvelopeFrozen ==
    /\ [](\A r \in Reqs : wpc[r] # "send-again")
    /\ [][\A r \in Reqs :
            wpc[r] \in {"after-send", "send-again", "exit"} =>
              wresp'[r] = wresp[r]]_vars


\* The data of an envelope holds a vector.
HoldsVector(data) == data.kind \in {"vector", "embedding"}

\* C31: every envelope an embed handler sends to the client is consistent:
\* success true comes with an empty error string and a vector in data,
\* success false with an error string that is not empty and no vector.
C31_EnvelopeConsistent ==
    \A r \in Reqs : \A i \in 1..Len(written[r]) :
      LET e == written[r][i].body IN
        /\ e.Success => (e.Error = "" /\ HoldsVector(e.Data))
        /\ ~e.Success => (e.Error # "" /\ ~HoldsVector(e.Data))


\* C32: on the timeout path the envelope the handler fills in and serialises
\* is the handler's alone: the worker of the request, still running, cannot
\* write it, so the envelope sent with the timeout status holds exactly what
\* the handler put there.
C32_TimeoutEnvelopeHandlersOwn ==
    \A r \in Reqs : \A i \in 1..Len(written[r]) :
      written[r][i].status \in {StatusInternalServerError, StatusGatewayTimeout} =>
        written[r][i].body = timeoutResp


\* C33: in OllamaPullModel, once the request context is cancelled the
\* callback writes no further progress frame, while the pull goes on:
\* PullModel decodes the backend stream until the stream's own end (no more
\* data, a record with status success, or a record that fails to decode), and
\* the handler then still writes its closing success or error frame.
C33_CancelStopsFramesNotPull ==
    /\ [](op.handler = "OllamaPullModel" =>
            /\ (cpc = "loop" => ENABLED PullModelStep)
            /\ (cpc = "returned" => ENABLED OllamaPullModelFinish)
            /\ (cpc \in {"returned", "done"} /\ op.flusher /\ cerr = "") =>
                 \/ ~More
                 \/ pos > 0 /\ backend.items[pos].status = "success")
    /\ [][(op.handler = "OllamaPullModel" /\ reqCtxDone) =>
            /\ PullModelStep => frames' = frames
            /\ OllamaPullModelFinish =>
                 /\ Len(frames') = Len(frames) + 1
                 /\ frames'[Len(frames')].src = "handler"
                 /\ frames'[Len(frames')].status \in {"success", "error"}]_vars

\* C33 witness: the caller went away after the first progress frame; the
\* pull decoded two more records without a frame, and the handler wrote the
\* closing frame.
C33_Witness ==
    /\ op.handler = "OllamaPullModel"
    /\ reqCtxDone
    /\ cpc = "done"
    /\ Len(delivered) = 3
    /\ Len(frames) = 2
    /\ frames[1].src = "callback"
    /\ frames[2].src = "handler"

\* C34: in the chat branch of PromptLLMStream, while the SSE sink is open,
\* Result is the concatenation, in order, of the contents of all the chunks
\* the callback has been given; a chunk whose content is not empty causes
\* exactly one patch, which carries that cumulative Result, and a chunk with
\* empty content causes no patch and leaves Result as it was.
C34_ResultIsConcatenation ==
    /\ []((op.handler = "PromptLLMStream" /\ op.client = "ChatStream"
           /\ ~reqCtxDone) =>
            signals.Result =
              Join([i \in 1..Len(delivered) |-> backend.items[delivered[i]].content]))
    /\ [][(op.handler = "PromptLLMStream" /\ op.client = "ChatStream"
           /\ ~reqCtxDone /\ Len(delivered') = Len(delivered) + 1) =>
            LET c == backend.items[delivered'[Len(delivered')]].content IN
              IF c # <<>>
              THEN /\ signals'.Result = signals.Result \o c
                   /\ frames' = Append(frames, Frame("callback", "patch",
                                                     signals'.Result, FALSE, ""))
              ELSE /\ signals' = signals
                   /\ frames' = frames]_vars

\* C34 witness: the chunks "a", "" and "b" came while the sink was open;
\* Result is "ab" and two patches were written by the callback.
C34_Witness ==
    /\ op.handler = "PromptLLMStream"
    /\ op.client = "ChatStream"
    /\ ~reqCtxDone
    /\ cpc = "done"
    /\ Len(delivered) = 3
    /\ backend.items[2].content = <<>>
    /\ signals.Result = <<"a", "b">>
    /\ Len(DataFrames) = 2
    /\ DataFrames[2].content = <<"a", "b">>

====
